---- MODULE Spec2Model ----
(***************************************************************************)
(* Drive2-Crawler: the extraction-and-resume pipeline.                     *)
(*                                                                         *)
(* The model follows main() (index.mjs, and its monolithic twin in         *)
(* drive2Scraper.js) step by step, one action per awaited operation, with  *)
(* the ProgressTracker methods as operators.  The environment decides the  *)
(* outcome of every fetch and of every file-system operation; the process  *)
(* may be terminated between any two steps and started again on the same   *)
(* output directory.                                                       *)
(*                                                                         *)
(* Spec takes every fetch as one step that succeeds or fails.  SpecFetch   *)
(* follows one run through the fetches themselves: the browser each one    *)
(* launches and closes, the retry loop around page.goto, the page loop of  *)
(* collectBlogPosts and the delays; SpecFetchFair adds that every awaited  *)
(* call returns.  SpecLegacy is the collector of the stand-alone script    *)
(* collectBlogPosts.js.  SpecText applies the functions on text            *)
(* (formatDate, createSafeFilename, convertHtmlToMarkdown,                 *)
(* generateMarkdown) to texts put together from a few parts, character by  *)
(* character.  SpecTorn is Spec with a termination inside save();          *)
(* SpecShape is main() on a ledger file of any JSON shape; SpecPeers is    *)
(* two processes on one output directory; SpecRetry runs a retry loop of   *)
(* drive2Scraper.js and navigateWithRetry on the same outcomes.            *)
(***************************************************************************)
EXTENDS Integers, Sequences, FiniteSets, TLC

\* ---------------------------------------------------------------- bounds
MaxRuns  == 2    \* runs of the program on one output directory
MaxPosts == 2    \* posts the source lists, over all its pages
PageSize == 1    \* posts the site puts on one listing page
MaxListed == 3   \* posts the source lists in SpecFetch

\* ------------------------------------------------------------ input sets
\* Characters of a post title: the ten characters createSafeFilename
\* replaces, and two it keeps.
ForbiddenChars == {"/", "\\", "?", "%", "*", ":", "|", "\"", "<", ">"}

Title1 == <<"A", "/">>
Title2 == <<"A", ":">>
Title3 == <<"B">>

\* PostSummary values the listing can hold (link, title).  Post1 and Post2
\* differ in link and share a file name; Post2 and Post3 share a link.
Post1 == [link |-> "a", title |-> Title1]
Post2 == [link |-> "b", title |-> Title2]
Post3 == [link |-> "b", title |-> Title3]
Posts == {Post1, Post2, Post3}

\* ------------------------------------------------------------- sequences
SeqsUpTo(S, n) == UNION {[1..k -> S] : k \in 0..n}

IsPrefix(s, t) == Len(s) <= Len(t) /\ SubSeq(t, 1, Len(s)) = s

\* The listings: at most MaxPosts posts, newest first; the same post may be
\* listed more than once.
Listings == SeqsUpTo(Posts, MaxPosts)

Min(a, b) == IF a <= b THEN a ELSE b

\* The site serves a listing as pages of PageSize posts; a listing without
\* posts is one empty page.
pageCount(listing) ==
  IF listing = <<>> THEN 1 ELSE (Len(listing) + PageSize - 1) \div PageSize

pageOf(listing, p) ==
  SubSeq(listing, (p - 1) * PageSize + 1, Min(p * PageSize, Len(listing)))

\* ---------------------------------------------------------------- ledger
EmptyData == [reviewComplete |-> FALSE, processedPosts |-> <<>>]

\* The content of .progress.json: absent, not JSON, or a saved ledger.
MissingFile == [kind |-> "missing", data |-> EmptyData]
InvalidFile == [kind |-> "invalid", data |-> EmptyData]
ValidFile(d) == [kind |-> "valid", data |-> d]

\* fs.readFile + JSON.parse: raises when the file is absent or is not JSON.
readProgress(f) ==
  IF f.kind = "valid" THEN [raised |-> FALSE, progress |-> f.data]
  ELSE [raised |-> TRUE, progress |-> EmptyData]

\* A load() that lets the read/parse error escape.
loadPropagating(d, f) ==
  LET r == readProgress(f) IN
    [raised |-> r.raised, data |-> IF r.raised THEN d ELSE r.progress]

\* ProgressTracker.load(): the catch swallows the error and leaves this.data
\* as the constructor set it.
load(d, f) ==
  LET r == readProgress(f) IN
    IF r.raised THEN [raised |-> FALSE, data |-> d]
    ELSE [raised |-> FALSE,
          data |-> [reviewComplete |-> r.progress.reviewComplete,
                    processedPosts |-> r.progress.processedPosts]]

\* A check that never sees the review as complete.
isReviewCompleteNever(d) == FALSE

isReviewComplete(d) == d.reviewComplete

setReviewComplete(d) == [d EXCEPT !.reviewComplete = TRUE]

\* A link comparison that looks at the title instead.
isPostProcessedByTitle(d, post) ==
  \E k \in DOMAIN d.processedPosts : d.processedPosts[k].title = post.title

isPostProcessed(d, post) ==
  \E k \in DOMAIN d.processedPosts : d.processedPosts[k].link = post.link

\* A filter that keeps every post.
filterKeepingAll(d, posts) == posts

\* Array.prototype.filter: walk posts front to back, keep the unprocessed.
RECURSIVE filterFrom(_, _)
filterFrom(d, posts) ==
  IF posts = <<>> THEN <<>>
  ELSE IF ~isPostProcessed(d, Head(posts))
       THEN <<Head(posts)>> \o filterFrom(d, Tail(posts))
       ELSE filterFrom(d, Tail(posts))

filterRemainingPosts(d, posts) == filterFrom(d, posts)

getProcessedCount(d) == Len(d.processedPosts)

\* A push that puts the new entry first.
pushProcessedFirst(d, post, fileName) ==
  [d EXCEPT !.processedPosts =
     <<[link |-> post.link, title |-> post.title, fileName |-> fileName]>> \o @]

\* A push that replaces the list by the new entry.
pushProcessedAlone(d, post, fileName) ==
  [d EXCEPT !.processedPosts =
     <<[link |-> post.link, title |-> post.title, fileName |-> fileName]>>]

\* this.data.processedPosts.push({link, title, fileName})
pushProcessed(d, post, fileName) ==
  [d EXCEPT !.processedPosts =
     Append(@, [link |-> post.link, title |-> post.title, fileName |-> fileName])]

\* ------------------------------------------------------------ file names
Whitespace == {" ", "\t", "\n"}

\* String.prototype.trim
RECURSIVE trim(_)
trim(t) ==
  IF t = <<>> THEN t
  ELSE IF Head(t) \in Whitespace THEN trim(Tail(t))
  ELSE IF t[Len(t)] \in Whitespace THEN trim(SubSeq(t, 1, Len(t) - 1))
  ELSE t

\* A file name that drops the characters it may not hold.
createSafeFilenameDropping(title) ==
  trim(SelectSeq(title, LAMBDA c : c \notin ForbiddenChars))

\* title.replace(/[/\\?%*:|"<>]/g, '-').trim()
createSafeFilename(title) ==
  trim([k \in DOMAIN title |-> IF title[k] \in ForbiddenChars THEN "-" ELSE title[k]])

\* `${dateStr} - ${safeTitle}.md`, for a PostSummary without a date
fileNameOf(post) == <<"unknown-date", createSafeFilename(post.title)>>

HomeMd == <<"Home.md", <<>>>>

\* ------------------------------------------------------------ collection
\* collectBlogPosts as main() sees it: it raises when page 1 does not load,
\* and otherwise returns the posts of the pages that loaded and extracted,
\* in page order.
RECURSIVE pagesFrom(_, _, _)
pagesFrom(src, p, lost) ==
  IF p > pageCount(src) THEN <<>>
  ELSE (IF p \in lost THEN <<>> ELSE pageOf(src, p)) \o pagesFrom(src, p + 1, lost)

collectBlogPosts(src, navFailed, extractFailed) ==
  IF 1 \in navFailed THEN [raised |-> TRUE, posts |-> <<>>]
  ELSE [raised |-> FALSE,
        posts |-> pagesFrom(src, 1, navFailed \cup extractFailed)]

\* ----------------------------------------------------------------- state
VARIABLES
  source,          \* the listing the site serves: PostSummary values
  dirExists,       \* the output directory exists
  file,            \* the content of .progress.json
  docs,            \* names of the documents in the output directory
  run,             \* number of the current run on this directory
  pc,              \* position of main()
  data,            \* ProgressTracker.data of the running process
  blogPosts,       \* result of collectBlogPosts
  remainingPosts,  \* result of filterRemainingPosts
  i,               \* loop index of the post loop (1-based)
  reviewOutcome,   \* what the review step of this run did
  log,             \* per post of this run: the post and how far it got
  startFile,       \* .progress.json as load() of this run found it
  exitCause,       \* the operation whose error ended the run
  marked,          \* links for which markPostProcessed has returned
  prev             \* the previous run: did it finish, did its review step fail,
                   \* which listed links its termination left with a document
                   \* and no ledger entry

vars == <<source, dirExists, file, docs, run, pc, data, blogPosts,
          remainingPosts, i, reviewOutcome, log, startFile, exitCause, marked,
          prev>>

disk == <<dirExists, file, docs>>
lists == <<blogPosts, remainingPosts, i>>

\* State of the fetches, at the grain of one awaited call: used by SpecFetch,
\* which follows extractCarReview, collectBlogPosts and extractBlogPost through
\* their sessions, retry loops and delays. Spec takes each fetch as one step.
VARIABLES
  variant,         \* "modules": index.mjs with utils.js; "single": drive2Scraper.js
  fpc,             \* position inside main() and the fetch it is in
  site,            \* the fetch in progress: "review", "listing" or "post"
  open,            \* browsers launched and not yet closed
  visited,         \* the urls page.goto was called with in the current browser
  retries,         \* attempts left in the current retry loop
  success,         \* the current retry loop has had a successful page.goto
  lastError,       \* lastError of the current retry loop
  attempts,        \* outcome of every page.goto of the current retry loop
  raised,          \* the error the current fetch has thrown, or "none"
  totalPages,      \* collectBlogPosts: result of getPageCount
  pageNum,         \* collectBlogPosts: loop variable
  allPosts,        \* collectBlogPosts: the posts collected so far
  pageLog,         \* collectBlogPosts: each page it dealt with, and how
  postNum,         \* main(): 1-based index of the post loop
  contacted,       \* page.goto has been called in this run
  delayed,         \* a delay has been waited since the last page.goto
  paced,           \* the delay of a loop iteration has been waited since then
  markers          \* texts of the a.c-page-link elements of the first page

retryVars == <<retries, success, lastError, attempts>>
collectVars == <<totalPages, pageNum, allPosts, pageLog>>
fetchVars == <<variant, fpc, site, open, visited, retryVars, raised,
               collectVars, postNum, contacted, delayed, paced, markers>>

\* The text functions, called on their own: the function, the module its code
\* is in, the argument, and the results of applying it, the second one being
\* the result of applying it to the first.
VARIABLE call

textVars == <<call>>

\* No text function is called.
TextIdle ==
  call = [fn |-> "none", module |-> "none", arg |-> <<>>, results |-> <<>>]

\* The parts of the program that are followed on their own, each under its own
\* specification.
VARIABLES
  loops,           \* a retry loop of drive2Scraper.js and navigateWithRetry,
                   \* side by side on the same outcomes of page.goto
  tracker,         \* main() up to the post loop, on a .progress.json that
                   \* holds any JSON value
  peers            \* two processes at work on one output directory

partVars == <<loops, tracker, peers>>

\* No part is followed on its own.
LoopsIdle ==
  loops = [place |-> "none", outcomes |-> <<>>, shared |-> <<>>, inline |-> <<>>]

TrackerIdle == tracker = [pc |-> "idle"]

PeersIdle == peers = [file |-> MissingFile, procs |-> <<>>]

PartsIdle ==
  /\ LoopsIdle
  /\ TrackerIdle
  /\ PeersIdle

\* No fetch is in progress.
FetchIdle ==
  /\ variant = "modules"
  /\ fpc = "idle"
  /\ site = "none"
  /\ open = 0
  /\ visited = {}
  /\ retries = 0
  /\ success = FALSE
  /\ lastError = "none"
  /\ attempts = <<>>
  /\ raised = "none"
  /\ totalPages = 0
  /\ pageNum = 1
  /\ allPosts = <<>>
  /\ pageLog = <<>>
  /\ postNum = 1
  /\ contacted = FALSE
  /\ delayed = FALSE
  /\ paced = FALSE
  /\ markers = <<>>

Running == {"start", "load", "review", "writeHome", "markReview", "collect",
            "filter", "loop", "writePost", "markPost"}
Ended == {"done", "exit1", "crashed"}

Init ==
  /\ source \in Listings
  /\ \/ dirExists = FALSE /\ file = MissingFile
     \/ dirExists = TRUE /\ file = InvalidFile
  /\ docs = {}
  /\ run = 1
  /\ pc = "start"
  /\ data = EmptyData
  /\ blogPosts = <<>>
  /\ remainingPosts = <<>>
  /\ i = 1
  /\ reviewOutcome = "none"
  /\ log = <<>>
  /\ startFile = MissingFile
  /\ exitCause = "none"
  /\ marked = {}
  /\ prev = [done |-> FALSE, reviewFailed |-> FALSE, unmarked |-> {}]
  /\ FetchIdle
  /\ TextIdle
  /\ PartsIdle

\* ------------------------------------------------------------------ main
\* createDirectoryIfNotExists: fs.access succeeds, or fs.mkdir does.
CreateDirectory ==
  /\ pc = "start"
  /\ dirExists' = TRUE
  /\ pc' = "load"
  /\ UNCHANGED <<source, file, docs, run, data, lists, reviewOutcome, log,
                 startFile, exitCause, marked, prev>>
  /\ UNCHANGED <<fetchVars, textVars, partVars>>

\* A main() that goes on without the output directory.
CreateDirectoryFailsIgnored ==
  /\ pc = "start"
  /\ ~dirExists
  /\ pc' = "load"
  /\ UNCHANGED <<source, disk, run, data, lists, reviewOutcome, log,
                 startFile, exitCause, marked, prev>>
  /\ UNCHANGED <<fetchVars, textVars, partVars>>

\* fs.mkdir raises: the outer catch of main() logs and exits with status 1.
CreateDirectoryFails ==
  /\ pc = "start"
  /\ ~dirExists
  /\ pc' = "exit1"
  /\ exitCause' = "mkdir"
  /\ UNCHANGED <<source, disk, run, data, lists, reviewOutcome, log,
                 startFile, marked, prev>>
  /\ UNCHANGED <<fetchVars, textVars, partVars>>

\* new ProgressTracker(outputDir); await progress.load()
Load ==
  /\ pc = "load"
  /\ LET r == load(data, file) IN
       IF r.raised
       THEN /\ pc' = "exit1"
            /\ exitCause' = "load"
            /\ UNCHANGED data
       ELSE /\ pc' = "review"
            /\ data' = r.data
            /\ UNCHANGED exitCause
  /\ startFile' = file
  /\ UNCHANGED <<source, disk, run, lists, reviewOutcome, log, marked, prev>>
  /\ UNCHANGED <<fetchVars, textVars, partVars>>

\* A main() that takes an existing Home.md for a completed review.
SkipReviewIfHomeExists ==
  /\ pc = "review"
  /\ isReviewComplete(data) \/ HomeMd \in docs
  /\ reviewOutcome' = "skipped"
  /\ pc' = "collect"
  /\ UNCHANGED <<source, disk, run, data, lists, log, startFile, exitCause, marked, prev>>
  /\ UNCHANGED <<fetchVars, textVars, partVars>>

\* if (!progress.isReviewComplete()) ... else: skipping
SkipReview ==
  /\ pc = "review"
  /\ isReviewComplete(data)
  /\ reviewOutcome' = "skipped"
  /\ pc' = "collect"
  /\ UNCHANGED <<source, disk, run, data, lists, log, startFile, exitCause, marked, prev>>
  /\ UNCHANGED <<fetchVars, textVars, partVars>>

\* A review step that records completion although the fetch failed.
ExtractCarReviewMarking ==
  /\ pc = "review"
  /\ ~isReviewComplete(data)
  /\ \E ok \in BOOLEAN :
       /\ reviewOutcome' = IF ok THEN "fetched" ELSE "fetchFail"
       /\ pc' = IF ok THEN "writeHome" ELSE "collect"
       /\ data' = IF ok THEN data ELSE setReviewComplete(data)
  /\ UNCHANGED <<source, disk, run, lists, log, startFile, exitCause, marked, prev>>
  /\ UNCHANGED <<fetchVars, textVars, partVars>>

\* const carReview = await extractCarReview(carUrl)
ExtractCarReview ==
  /\ pc = "review"
  /\ ~isReviewComplete(data)
  /\ \E ok \in BOOLEAN :
       /\ reviewOutcome' = IF ok THEN "fetched" ELSE "fetchFail"
       /\ pc' = IF ok THEN "writeHome" ELSE "collect"
  /\ UNCHANGED <<source, disk, run, data, lists, log, startFile, exitCause, marked, prev>>
  /\ UNCHANGED <<fetchVars, textVars, partVars>>

\* A review step that marks the review although writing Home.md failed.
WriteHomeThenMarkAnyway ==
  /\ pc = "writeHome"
  /\ \E ok \in BOOLEAN :
       /\ docs' = IF ok THEN docs \cup {HomeMd} ELSE docs
       /\ reviewOutcome' = IF ok THEN "written" ELSE "writeFail"
       /\ pc' = "markReview"
  /\ UNCHANGED <<source, dirExists, file, run, data, lists, log, startFile,
                 exitCause, marked, prev>>
  /\ UNCHANGED <<fetchVars, textVars, partVars>>

\* await fs.writeFile(path.join(outputDir, 'Home.md'), carReview)
WriteHome ==
  /\ pc = "writeHome"
  /\ \E ok \in BOOLEAN :
       /\ docs' = IF ok THEN docs \cup {HomeMd} ELSE docs
       /\ reviewOutcome' = IF ok THEN "written" ELSE "writeFail"
       /\ pc' = IF ok THEN "markReview" ELSE "collect"
  /\ UNCHANGED <<source, dirExists, file, run, data, lists, log, startFile,
                 exitCause, marked, prev>>
  /\ UNCHANGED <<fetchVars, textVars, partVars>>

\* ProgressTracker.markReviewComplete: set the flag, then save().
MarkReviewComplete ==
  /\ pc = "markReview"
  /\ data' = setReviewComplete(data)
  /\ \E ok \in BOOLEAN :
       /\ file' = IF ok THEN ValidFile(data') ELSE file
       /\ reviewOutcome' = IF ok THEN "ok" ELSE "saveFail"
  /\ pc' = "collect"
  /\ UNCHANGED <<source, dirExists, docs, run, lists, log, startFile,
                 exitCause, marked, prev>>
  /\ UNCHANGED <<fetchVars, textVars, partVars>>

\* drive2Scraper.js: write the progress file, and only then set the flag.
InlineMarkReview ==
  /\ pc = "markReview"
  /\ \E ok \in BOOLEAN :
       /\ file' = IF ok THEN ValidFile(setReviewComplete(data)) ELSE file
       /\ data' = IF ok THEN setReviewComplete(data) ELSE data
       /\ reviewOutcome' = IF ok THEN "ok" ELSE "saveFail"
  /\ pc' = "collect"
  /\ UNCHANGED <<source, dirExists, docs, run, lists, log, startFile,
                 exitCause, marked, prev>>
  /\ UNCHANGED <<fetchVars, textVars, partVars>>

\* const blogPosts = await collectBlogPosts(carUrl): an error is not caught
\* here, so it reaches the outer catch and the process exits with status 1.
Collect ==
  /\ pc = "collect"
  /\ \E navFailed \in SUBSET (1..pageCount(source)),
        extractFailed \in SUBSET (1..pageCount(source)) :
       LET r == collectBlogPosts(source, navFailed, extractFailed) IN
         IF r.raised
         THEN /\ pc' = "exit1"
              /\ exitCause' = "collect"
              /\ UNCHANGED blogPosts
         ELSE /\ pc' = "filter"
              /\ blogPosts' = r.posts
              /\ UNCHANGED exitCause
  /\ UNCHANGED <<source, disk, run, data, remainingPosts, i, reviewOutcome,
                 log, startFile, marked, prev>>
  /\ UNCHANGED <<fetchVars, textVars, partVars>>

\* const remainingPosts = progress.filterRemainingPosts(blogPosts)
Filter ==
  /\ pc = "filter"
  /\ remainingPosts' = filterRemainingPosts(data, blogPosts)
  /\ i' = 1
  /\ pc' = "loop"
  /\ UNCHANGED <<source, disk, run, data, blogPosts, reviewOutcome, log,
                 startFile, exitCause, marked, prev>>
  /\ UNCHANGED <<fetchVars, textVars, partVars>>

\* A post loop without the try of the iteration: a failed fetch reaches the
\* outer catch.
ExtractBlogPostUncaught ==
  /\ pc = "loop"
  /\ i <= Len(remainingPosts)
  /\ \E ok \in BOOLEAN :
       /\ log' = Append(log, [post |-> remainingPosts[i],
                              result |-> IF ok THEN "fetched" ELSE "fetchFail"])
       /\ pc' = IF ok THEN "writePost" ELSE "exit1"
       /\ exitCause' = IF ok THEN exitCause ELSE "post"
  /\ UNCHANGED <<source, disk, run, data, lists, reviewOutcome, startFile,
                 marked, prev>>
  /\ UNCHANGED <<fetchVars, textVars, partVars>>

\* The delay, then await extractBlogPost(post.link); a failure is caught by
\* the try of this iteration and the loop goes on.
ExtractBlogPost ==
  /\ pc = "loop"
  /\ i <= Len(remainingPosts)
  /\ \E ok \in BOOLEAN :
       /\ log' = Append(log, [post |-> remainingPosts[i],
                              result |-> IF ok THEN "fetched" ELSE "fetchFail"])
       /\ pc' = IF ok THEN "writePost" ELSE "loop"
       /\ i' = IF ok THEN i ELSE i + 1
  /\ UNCHANGED <<source, disk, run, data, blogPosts, remainingPosts,
                 reviewOutcome, startFile, exitCause, marked, prev>>
  /\ UNCHANGED <<fetchVars, textVars, partVars>>

\* await fs.writeFile(filePath, postContent)
WritePost ==
  /\ pc = "writePost"
  /\ \E ok \in BOOLEAN :
       /\ docs' = IF ok THEN docs \cup {fileNameOf(remainingPosts[i])} ELSE docs
       /\ log' = [log EXCEPT ![Len(log)].result =
                    IF ok THEN "written" ELSE "writeFail"]
       /\ pc' = IF ok THEN "markPost" ELSE "loop"
       /\ i' = IF ok THEN i ELSE i + 1
  /\ UNCHANGED <<source, dirExists, file, run, data, blogPosts, remainingPosts,
                 reviewOutcome, startFile, exitCause, marked, prev>>
  /\ UNCHANGED <<fetchVars, textVars, partVars>>

\* ProgressTracker.markPostProcessed (and the same two statements inline in
\* drive2Scraper.js): push the entry, then save().
MarkPostProcessed ==
  /\ pc = "markPost"
  /\ data' = pushProcessed(data, remainingPosts[i], fileNameOf(remainingPosts[i]))
  /\ \E ok \in BOOLEAN :
       /\ file' = IF ok THEN ValidFile(data') ELSE file
       /\ marked' = IF ok THEN marked \cup {remainingPosts[i].link} ELSE marked
       /\ log' = [log EXCEPT ![Len(log)].result = IF ok THEN "ok" ELSE "saveFail"]
  /\ pc' = "loop"
  /\ i' = i + 1
  /\ UNCHANGED <<source, dirExists, docs, run, blogPosts, remainingPosts,
                 reviewOutcome, startFile, exitCause, prev>>
  /\ UNCHANGED <<fetchVars, textVars, partVars>>

\* The loop is over: main() returns and the process exits with status 0.
Finish ==
  /\ pc = "loop"
  /\ i > Len(remainingPosts)
  /\ pc' = "done"
  /\ UNCHANGED <<source, disk, run, data, lists, reviewOutcome, log,
                 startFile, exitCause, marked, prev>>
  /\ UNCHANGED <<fetchVars, textVars, partVars>>

\* ----------------------------------------------------------- environment
\* The process is terminated between two steps: its memory is gone, the
\* output directory stays as it is.
Crash ==
  /\ pc \in Running
  /\ pc' = "crashed"
  /\ data' = EmptyData
  /\ blogPosts' = <<>>
  /\ remainingPosts' = <<>>
  /\ i' = 1
  /\ reviewOutcome' = "none"
  /\ log' = <<>>
  /\ startFile' = MissingFile
  /\ exitCause' = "none"
  /\ UNCHANGED <<source, disk, run, marked, prev>>
  /\ UNCHANGED <<fetchVars, textVars, partVars>>

\* The program is started again on the same output directory.
NextRun ==
  /\ pc \in Ended
  /\ run < MaxRuns
  /\ run' = run + 1
  /\ pc' = "start"
  /\ data' = EmptyData
  /\ blogPosts' = <<>>
  /\ remainingPosts' = <<>>
  /\ i' = 1
  /\ reviewOutcome' = "none"
  /\ log' = <<>>
  /\ startFile' = MissingFile
  /\ exitCause' = "none"
  /\ prev' = [done |-> (pc = "done"),
              reviewFailed |-> (reviewOutcome \in {"fetchFail", "writeFail"}),
              unmarked |-> IF pc # "crashed" THEN {} ELSE
                           {source[k].link : k \in
                             {j \in DOMAIN source :
                                /\ fileNameOf(source[j]) \in docs
                                /\ source[j].link \notin
                                     {file.data.processedPosts[n].link :
                                        n \in DOMAIN file.data.processedPosts}}}]
  /\ UNCHANGED <<source, disk, marked>>
  /\ UNCHANGED <<fetchVars, textVars, partVars>>

Next ==
  \/ CreateDirectory
  \/ CreateDirectoryFails
  \/ Load
  \/ SkipReview
  \/ ExtractCarReview
  \/ WriteHome
  \/ MarkReviewComplete
  \/ InlineMarkReview
  \/ Collect
  \/ Filter
  \/ ExtractBlogPost
  \/ WritePost
  \/ MarkPostProcessed
  \/ Finish
  \/ Crash
  \/ NextRun

Spec == Init /\ [][Next]_vars

\* ------------------------------------------------- termination inside save
\* fs.writeFile opens .progress.json for writing, which empties it, and then
\* writes the text. A process terminated inside save() leaves the file empty
\* or with the first part of the text, neither of which is JSON, or with the
\* whole text. Terminated before the file is opened it leaves the file as it
\* was, which is Crash.
CrashInSave ==
  /\ pc \in {"markReview", "markPost"}
  /\ \E whole \in BOOLEAN :
       file' = IF ~whole THEN InvalidFile
               ELSE IF pc = "markReview"
               THEN ValidFile(setReviewComplete(data))
               ELSE ValidFile(pushProcessed(data, remainingPosts[i],
                                            fileNameOf(remainingPosts[i])))
  /\ pc' = "crashed"
  /\ data' = EmptyData
  /\ blogPosts' = <<>>
  /\ remainingPosts' = <<>>
  /\ i' = 1
  /\ reviewOutcome' = "none"
  /\ log' = <<>>
  /\ startFile' = MissingFile
  /\ exitCause' = "none"
  /\ UNCHANGED <<source, dirExists, docs, run, marked, prev>>
  /\ UNCHANGED <<fetchVars, textVars, partVars>>

\* The runs of Spec, with a termination possible inside save() too.
NextTorn ==
  \/ Next
  \/ CrashInSave

SpecTorn == Init /\ [][NextTorn]_vars

\* =============================================================== fetches
\* navigateWithRetry: const maxRetries = options.maxRetries || 3
maxRetries == 3

\* The errors page.goto rejects with.
Errors == {"e1", "e2"}

\* new Error('Failed to navigate ... after multiple attempts')
GenericError == "generic"

\* A retry loop that goes round once more than it was given attempts.
loopContinuesOnceMore(r, s) == r >= 0 /\ ~s

\* while (retries > 0 && !success)
loopContinues(r, s) == r > 0 /\ ~s

\* The url page.goto is called with.
target ==
  CASE site = "listing" -> <<"listing", pageNum>>
    [] site = "post" -> <<"post", postNum>>
    [] OTHER -> <<"review", 0>>

\* catch (error) { lastError = error; ... }: the loops of collectBlogPosts in
\* drive2Scraper.js keep no lastError.
storesLastError(v, s) == ~(v = "single" /\ s = "listing")

\* The delay of the catch block: the loop of the later pages in
\* drive2Scraper.js waits only when an attempt is left.
delaysAfterFailure(v, s, p, left) ==
  (v = "single" /\ s = "listing" /\ p > 1) => left > 0

\* A collection that skips every page that does not load, the first too.
navigationErrorNeverPropagates(s, p) == FALSE

\* A navigation that failed every attempt ends the fetch with its error,
\* except on the pages after the first, whose catch goes on with the loop.
navigationErrorPropagates(s, p) == ~(s = "listing" /\ p > 1)

\* A collection that puts the posts of a page in front of the earlier ones.
prependPosts(all, postsOnPage) == postsOnPage \o all

\* allPosts = [...allPosts, ...postsOnPage]
appendPosts(all, postsOnPage) == all \o postsOnPage

\* Where main() goes on when the fetch s has returned, or has thrown err.
returnTo(s, err) ==
  CASE s = "review" -> "collect"
    [] s = "listing" -> IF err = "none" THEN "posts" ELSE "exit1"
    [] OTHER -> "nextPost"

\* ------------------------------------------------------------ page count
Digits == {"0", "1", "2", "3", "4", "5", "6", "7", "8", "9"}

DigitValue(c) ==
  CASE c = "0" -> 0 [] c = "1" -> 1 [] c = "2" -> 2 [] c = "3" -> 3
    [] c = "4" -> 4 [] c = "5" -> 5 [] c = "6" -> 6 [] c = "7" -> 7
    [] c = "8" -> 8 [] OTHER -> 9

\* A parsed number is the set of that number, and NaN is the empty set, so that
\* filtering the NaN out of a list of results is taking their union.
NaN == {}

\* The value of the digits t starts with, after the digits of value acc that
\* were read already; NaN when no digit was read at all.
RECURSIVE digitsValue(_, _, _)
digitsValue(t, acc, any) ==
  IF t # <<>> /\ Head(t) \in Digits
  THEN digitsValue(Tail(t), 10 * acc + DigitValue(Head(t)), TRUE)
  ELSE IF any THEN {acc} ELSE NaN

\* parseInt(text): leading whitespace, an optional sign, then as many decimal
\* digits as there are; NaN without a digit.
parseInt(t) ==
  LET u == trim(t)
      signed == u # <<>> /\ Head(u) \in {"-", "+"}
      v == digitsValue(IF signed THEN Tail(u) ELSE u, 0, FALSE)
  IN IF signed /\ Head(u) = "-" THEN {0 - n : n \in v} ELSE v

\* Math.max(...pageNumbers)
Max(S) == CHOOSE m \in S : \A n \in S : n <= m

\* A page count that is whatever Math.max makes of no number at all.
getPageCountWithoutDefault(texts) ==
  LET pageNumbers == UNION {parseInt(trim(texts[k])) : k \in DOMAIN texts}
  IN IF pageNumbers = {} THEN 0 ELSE Max(pageNumbers)

\* getPageCount: 1 without pagination links, 1 when no link text is a number,
\* else the largest number.
getPageCount(texts) ==
  IF Len(texts) = 0 THEN 1
  ELSE LET pageNumbers == UNION {parseInt(trim(texts[k])) : k \in DOMAIN texts}
       IN IF pageNumbers = {} THEN 1 ELSE Max(pageNumbers)

\* The text of the link to page n, n < 10.
PageLinkText(n) == <<" ", <<"1", "2", "3", "4", "5", "6", "7", "8", "9">>[n], " ">>

\* The text of the link to the next page.
NextLinkText == <<">", ">">>

\* Link texts that are numbers and no page numbers.
ZeroLinkText == <<"0">>
NegativeLinkText == <<"-", "1">>

\* The pagination links the first page of a listing can show: none, only
\* links without a number, only a link whose number is no page number, a
\* link to every page, or these and one to the next page after them.
MarkersOf(listing) ==
  { <<>>,
    <<NextLinkText>>,
    <<ZeroLinkText>>,
    <<NegativeLinkText, NextLinkText>>,
    [k \in 1..pageCount(listing) |-> PageLinkText(k)],
    [k \in 1..(pageCount(listing) + 1) |->
       IF k <= pageCount(listing) THEN PageLinkText(k) ELSE NextLinkText] }

\* The listings of SpecFetch: at most MaxListed posts, any two neighbours
\* different.
ListingOf(n) ==
  [k \in 1..n |-> CASE k % 3 = 1 -> Post1
                    [] k % 3 = 2 -> Post2
                    [] OTHER -> Post3]

FetchListings == {ListingOf(n) : n \in 0..MaxListed}

\* The pipeline of Spec stands still at its start, on an existing directory
\* without a ledger.
MainAtStart ==
  /\ dirExists = TRUE
  /\ file = MissingFile
  /\ docs = {}
  /\ run = 1
  /\ pc = "start"
  /\ data = EmptyData
  /\ blogPosts = <<>>
  /\ remainingPosts = <<>>
  /\ i = 1
  /\ reviewOutcome = "none"
  /\ log = <<>>
  /\ startFile = MissingFile
  /\ exitCause = "none"
  /\ marked = {}
  /\ prev = [done |-> FALSE, reviewFailed |-> FALSE, unmarked |-> {}]

\* A run with the output directory in place and no ledger, which fetches the
\* review or finds it complete.
InitFetch ==
  /\ source \in FetchListings
  /\ MainAtStart
  /\ TextIdle
  /\ PartsIdle
  /\ variant \in {"modules", "single"}
  /\ fpc \in {"review", "collect"}
  /\ site = "none"
  /\ open = 0
  /\ visited = {}
  /\ retries = 0
  /\ success = FALSE
  /\ lastError = "none"
  /\ attempts = <<>>
  /\ raised = "none"
  /\ totalPages = 0
  /\ pageNum = 1
  /\ allPosts = <<>>
  /\ pageLog = <<>>
  /\ postNum = 1
  /\ contacted = FALSE
  /\ delayed = FALSE
  /\ paced = FALSE
  /\ markers \in MarkersOf(source)

\* A fetch that takes over the browser of the fetch before it.
LaunchReusing(s) ==
  /\ site' = s
  /\ \E ok \in BOOLEAN :
       /\ open' = IF ok THEN 1 ELSE open
       /\ raised' = IF ok THEN "none" ELSE "launch"
       /\ fpc' = IF ok THEN "newPage" ELSE returnTo(s, "launch")
  /\ visited' = visited
  /\ retries' = 0
  /\ success' = FALSE
  /\ lastError' = "none"
  /\ attempts' = <<>>

\* const browser = await puppeteer.launch(...): the first statement of every
\* fetch, before its try.
Launch(s) ==
  /\ site' = s
  /\ \E ok \in BOOLEAN :
       /\ open' = IF ok THEN open + 1 ELSE open
       /\ raised' = IF ok THEN "none" ELSE "launch"
       /\ fpc' = IF ok THEN "newPage" ELSE returnTo(s, "launch")
  /\ visited' = {}
  /\ retries' = 0
  /\ success' = FALSE
  /\ lastError' = "none"
  /\ attempts' = <<>>

\* const carReview = await extractCarReview(carUrl)
CallExtractCarReview ==
  /\ fpc = "review"
  /\ Launch("review")
  /\ UNCHANGED <<vars, textVars, partVars, markers, variant, collectVars, postNum, contacted, delayed, paced>>

\* const blogPosts = await collectBlogPosts(carUrl)
CallCollectBlogPosts ==
  /\ fpc = "collect"
  /\ Launch("listing")
  /\ UNCHANGED <<vars, textVars, partVars, markers, variant, collectVars, postNum, contacted, delayed, paced>>

\* The post loop: the delay of 2000 ms, then await extractBlogPost(post.link).
CallExtractBlogPost ==
  /\ fpc = "posts"
  /\ postNum <= Len(allPosts)
  /\ delayed' = TRUE
  /\ paced' = TRUE
  /\ Launch("post")
  /\ UNCHANGED <<vars, textVars, partVars, markers, variant, collectVars, postNum, contacted>>

\* browser.newPage(), the timeout and the headers; then the retry loop starts.
NewPage ==
  /\ fpc = "newPage"
  /\ \E ok \in BOOLEAN :
       IF ok
       THEN /\ fpc' = "goto"
            /\ retries' = maxRetries
            /\ UNCHANGED raised
       ELSE /\ fpc' = "finally"
            /\ raised' = "setup"
            /\ UNCHANGED retries
  /\ UNCHANGED <<vars, textVars, partVars, markers, variant, site, open, visited, success, lastError,
                 attempts, collectVars, postNum, contacted, delayed, paced>>

\* One round of the retry loop: await page.goto(url, ...), and on its error
\* the catch block.
Goto ==
  /\ fpc = "goto"
  /\ loopContinues(retries, success)
  /\ \E out \in {"ok"} \cup Errors :
       /\ attempts' = Append(attempts, out)
       /\ success' = (out = "ok")
       /\ retries' = IF out = "ok" THEN retries ELSE retries - 1
       /\ lastError' = IF out # "ok" /\ storesLastError(variant, site)
                       THEN out ELSE lastError
       /\ delayed' = IF out = "ok" THEN FALSE
                     ELSE delaysAfterFailure(variant, site, pageNum, retries - 1)
  /\ visited' = visited \cup {target}
  /\ contacted' = TRUE
  /\ paced' = FALSE
  /\ UNCHANGED <<vars, textVars, partVars, markers, variant, fpc, site, open, raised, collectVars, postNum>>

\* The loop ended with success: extraction follows.
NavigationSucceeded ==
  /\ fpc = "goto"
  /\ ~loopContinues(retries, success)
  /\ success
  /\ fpc' = CASE site = "listing" /\ pageNum = 1 -> "getPageCount"
              [] site = "listing" /\ pageNum > 1 -> "extract"
              [] OTHER -> "evaluate"
  /\ UNCHANGED <<vars, textVars, partVars, markers, variant, site, open, visited, retryVars, raised,
                 collectVars, postNum, contacted, delayed, paced>>

\* if (!success) throw lastError || new Error(...); on a later page of the
\* listing the error is caught and the loop continues.
NavigationFailed ==
  /\ fpc = "goto"
  /\ ~loopContinues(retries, success)
  /\ ~success
  /\ IF navigationErrorPropagates(site, pageNum)
     THEN /\ raised' = IF lastError # "none" THEN lastError ELSE GenericError
          /\ fpc' = "finally"
     ELSE /\ fpc' = "nextPage"
          /\ UNCHANGED raised
  /\ pageLog' = IF site = "listing"
                THEN Append(pageLog, [page |-> pageNum, result |-> "navFail"])
                ELSE pageLog
  /\ UNCHANGED <<vars, textVars, partVars, markers, variant, site, open, visited, retryVars, totalPages,
                 pageNum, allPosts, postNum, contacted, delayed, paced>>

\* const totalPages = await getPageCount(page): 1 when its evaluate fails.
\* Then the head of the for loop, pageNum = 1: with pageNum <= totalPages
\* false the loop has no iteration and allPosts is returned empty.
GetPageCount ==
  /\ fpc = "getPageCount"
  /\ \E ok \in BOOLEAN : totalPages' = IF ok THEN getPageCount(markers) ELSE 1
  /\ fpc' = IF pageNum <= totalPages' THEN "extract" ELSE "finally"
  /\ UNCHANGED <<vars, textVars, partVars, markers, variant, site, open, visited, retryVars, raised,
                 pageNum, allPosts, pageLog, postNum, contacted, delayed, paced>>

\* postsOnPage = await extractPostsFromPage(page, baseUrl): no posts when the
\* extraction fails.
ExtractPostsFromPage ==
  /\ fpc = "extract"
  /\ \E ok \in BOOLEAN :
       /\ allPosts' = appendPosts(allPosts,
                                  IF ok THEN pageOf(source, pageNum) ELSE <<>>)
       /\ pageLog' = Append(pageLog,
                            [page |-> pageNum,
                             result |-> IF ok THEN "extracted" ELSE "extractFail"])
  /\ fpc' = "nextPage"
  /\ UNCHANGED <<vars, textVars, partVars, markers, variant, site, open, visited, retryVars, raised,
                 totalPages, pageNum, postNum, contacted, delayed, paced>>

\* A page loop that goes to the next page without waiting.
NextPageUnpaced ==
  /\ fpc = "nextPage"
  /\ pageNum + 1 <= totalPages
  /\ pageNum' = pageNum + 1
  /\ retries' = maxRetries
  /\ success' = FALSE
  /\ lastError' = "none"
  /\ attempts' = <<>>
  /\ fpc' = "goto"
  /\ UNCHANGED <<vars, textVars, partVars, markers, variant, site, open, visited, raised, totalPages,
                 allPosts, pageLog, postNum, contacted, delayed, paced>>

\* pageNum++ with a page left: the delay of 2000 ms, then its retry loop.
NextPage ==
  /\ fpc = "nextPage"
  /\ pageNum + 1 <= totalPages
  /\ pageNum' = pageNum + 1
  /\ delayed' = TRUE
  /\ paced' = TRUE
  /\ retries' = maxRetries
  /\ success' = FALSE
  /\ lastError' = "none"
  /\ attempts' = <<>>
  /\ fpc' = "goto"
  /\ UNCHANGED <<vars, textVars, partVars, markers, variant, site, open, visited, raised, totalPages,
                 allPosts, pageLog, postNum, contacted>>

\* pageNum++ with no page left: return allPosts.
ReturnPosts ==
  /\ fpc = "nextPage"
  /\ pageNum + 1 > totalPages
  /\ fpc' = "finally"
  /\ UNCHANGED <<vars, textVars, partVars, markers, variant, site, open, visited, retryVars, raised,
                 collectVars, postNum, contacted, delayed, paced>>

\* page.evaluate and the conversion to Markdown of a review or a post.
Evaluate ==
  /\ fpc = "evaluate"
  /\ \E ok \in BOOLEAN : raised' = IF ok THEN "none" ELSE "evaluate"
  /\ fpc' = "finally"
  /\ UNCHANGED <<vars, textVars, partVars, markers, variant, site, open, visited, retryVars, collectVars,
                 postNum, contacted, delayed, paced>>

\* A fetch that closes its browser as the last statement of its try.
CloseBrowserAtEndOfTry ==
  /\ fpc = "finally"
  /\ open' = IF raised = "none" THEN open - 1 ELSE open
  /\ fpc' = returnTo(site, raised)
  /\ UNCHANGED <<vars, textVars, partVars, markers, variant, site, visited, retryVars, raised, collectVars,
                 postNum, contacted, delayed, paced>>

\* finally { await browser.close() }: then the result or the error reaches
\* main().
CloseBrowser ==
  /\ fpc = "finally"
  /\ open' = open - 1
  /\ fpc' = returnTo(site, raised)
  /\ UNCHANGED <<vars, textVars, partVars, markers, variant, site, visited, retryVars, raised, collectVars,
                 postNum, contacted, delayed, paced>>

\* A post loop that stays on a post until its fetch succeeds.
NextPostRetrying ==
  /\ fpc = "nextPost"
  /\ postNum' = IF raised = "none" THEN postNum + 1 ELSE postNum
  /\ fpc' = "posts"
  /\ UNCHANGED <<vars, textVars, partVars, markers, variant, site, open, visited, retryVars, raised,
                 collectVars, contacted, delayed, paced>>

\* i++ of the post loop, after the body or its catch.
NextPost ==
  /\ fpc = "nextPost"
  /\ postNum' = postNum + 1
  /\ fpc' = "posts"
  /\ UNCHANGED <<vars, textVars, partVars, markers, variant, site, open, visited, retryVars, raised,
                 collectVars, contacted, delayed, paced>>

\* i < remainingPosts.length is false: main() returns.
FinishFetches ==
  /\ fpc = "posts"
  /\ postNum > Len(allPosts)
  /\ fpc' = "done"
  /\ UNCHANGED <<vars, textVars, partVars, markers, variant, site, open, visited, retryVars, raised,
                 collectVars, postNum, contacted, delayed, paced>>

NextFetch ==
  \/ CallExtractCarReview
  \/ CallCollectBlogPosts
  \/ CallExtractBlogPost
  \/ NewPage
  \/ Goto
  \/ NavigationSucceeded
  \/ NavigationFailed
  \/ GetPageCount
  \/ ExtractPostsFromPage
  \/ NextPage
  \/ ReturnPosts
  \/ Evaluate
  \/ CloseBrowser
  \/ NextPost
  \/ FinishFetches

allVars == <<vars, fetchVars, textVars, partVars>>

SpecFetch == InitFetch /\ [][NextFetch]_allVars

\* Every awaited call returns or fails in finite time, so main() always takes
\* its next step.
SpecFetchFair == SpecFetch /\ WF_allVars(NextFetch)

\* main() of SpecFetch has ended: it returned, or its catch called
\* process.exit(1).
FetchesEnded == fpc \in {"done", "exit1"}

\* ====================================================== legacy collector
\* collectBlogPosts.js, the stand-alone script: one page.goto per page, without
\* retry and without delay, the page count read from the last pagination link,
\* and no catch inside the function. SpecLegacy runs it on the listings and
\* the pagination links of SpecFetch; variant is "legacy".
InitLegacy ==
  /\ source \in FetchListings
  /\ MainAtStart
  /\ TextIdle
  /\ PartsIdle
  /\ variant = "legacy"
  /\ fpc = "collect"
  /\ site = "none"
  /\ open = 0
  /\ visited = {}
  /\ retries = 0
  /\ success = FALSE
  /\ lastError = "none"
  /\ attempts = <<>>
  /\ raised = "none"
  /\ totalPages = 0
  /\ pageNum = 1
  /\ allPosts = <<>>
  /\ pageLog = <<>>
  /\ postNum = 1
  /\ contacted = FALSE
  /\ delayed = FALSE
  /\ paced = FALSE
  /\ markers \in MarkersOf(source)

\* The page count of the script: 1 without pagination links, else the number
\* the last link's text parses to, 1 when it is not a number.
lastPageNumber(texts) ==
  IF Len(texts) = 0 THEN 1
  ELSE LET n == parseInt(trim(texts[Len(texts)]))
       IN IF n = NaN THEN 1 ELSE Max(n)

\* const browser = await puppeteer.launch(...), before the try.
LegacyLaunch ==
  /\ fpc = "collect"
  /\ site' = "listing"
  /\ \E ok \in BOOLEAN :
       /\ open' = IF ok THEN open + 1 ELSE open
       /\ raised' = IF ok THEN "none" ELSE "launch"
       /\ fpc' = IF ok THEN "newPage" ELSE "caught"
  /\ UNCHANGED <<vars, textVars, partVars, markers, variant, visited, retryVars, collectVars, postNum,
                 contacted, delayed, paced>>

\* const page = await browser.newPage()
LegacyNewPage ==
  /\ fpc = "newPage"
  /\ \E ok \in BOOLEAN :
       /\ raised' = IF ok THEN "none" ELSE "newPage"
       /\ fpc' = IF ok THEN "goto" ELSE "finally"
  /\ UNCHANGED <<vars, textVars, partVars, markers, variant, site, open, visited, retryVars, collectVars,
                 postNum, contacted, delayed, paced>>

\* await page.goto(...) of the first page, or of ?page=pageNum in the loop: one
\* call, whose error leaves the function.
LegacyGoto ==
  /\ fpc = "goto"
  /\ \E out \in {"ok"} \cup Errors :
       /\ attempts' = <<out>>
       /\ success' = (out = "ok")
       /\ raised' = IF out = "ok" THEN "none" ELSE out
       /\ fpc' = IF out # "ok" THEN "finally"
                 ELSE IF pageNum = 1 THEN "getPageCount" ELSE "extract"
       /\ pageLog' = IF out = "ok" THEN pageLog
                     ELSE Append(pageLog, [page |-> pageNum, result |-> "navFail"])
  /\ visited' = visited \cup {<<"listing", pageNum>>}
  /\ contacted' = TRUE
  /\ delayed' = FALSE
  /\ paced' = FALSE
  /\ UNCHANGED <<vars, textVars, partVars, markers, variant, site, open, retries, lastError, totalPages,
                 pageNum, allPosts, postNum>>

\* const totalPages = await page.evaluate(...): its error leaves the function.
LegacyPageCount ==
  /\ fpc = "getPageCount"
  /\ \E ok \in BOOLEAN :
       /\ totalPages' = IF ok THEN lastPageNumber(markers) ELSE totalPages
       /\ raised' = IF ok THEN "none" ELSE "evaluate"
       /\ fpc' = IF ok /\ pageNum <= totalPages' THEN "extract" ELSE "finally"
  /\ UNCHANGED <<vars, textVars, partVars, markers, variant, site, open, visited, retryVars, pageNum,
                 allPosts, pageLog, postNum, contacted, delayed, paced>>

\* const postsOnPage = await page.evaluate(...); allPosts = [...allPosts,
\* ...postsOnPage]: the evaluate is in no try of its own, so its error leaves
\* the loop and the function.
LegacyExtract ==
  /\ fpc = "extract"
  /\ \E ok \in BOOLEAN :
       /\ allPosts' = IF ok THEN appendPosts(allPosts, pageOf(source, pageNum))
                      ELSE allPosts
       /\ pageLog' = Append(pageLog,
                            [page |-> pageNum,
                             result |-> IF ok THEN "extracted" ELSE "extractFail"])
       /\ raised' = IF ok THEN "none" ELSE "evaluate"
       /\ fpc' = IF ok THEN "nextPage" ELSE "finally"
  /\ UNCHANGED <<vars, textVars, partVars, markers, variant, site, open, visited, retryVars, totalPages,
                 pageNum, postNum, contacted, delayed, paced>>

\* pageNum++ with a page left: the loop body goes to it at once.
LegacyNextPage ==
  /\ fpc = "nextPage"
  /\ pageNum + 1 <= totalPages
  /\ pageNum' = pageNum + 1
  /\ fpc' = "goto"
  /\ UNCHANGED <<vars, textVars, partVars, markers, variant, site, open, visited, retryVars, raised,
                 totalPages, allPosts, pageLog, postNum, contacted, delayed, paced>>

\* pageNum++ with no page left: return allPosts.
LegacyReturnPosts ==
  /\ fpc = "nextPage"
  /\ pageNum + 1 > totalPages
  /\ fpc' = "finally"
  /\ UNCHANGED <<vars, textVars, partVars, markers, variant, site, open, visited, retryVars, raised,
                 collectVars, postNum, contacted, delayed, paced>>

\* finally { await browser.close() }: then the caller has the posts, or its
\* catch has the error.
LegacyCloseBrowser ==
  /\ fpc = "finally"
  /\ open' = open - 1
  /\ fpc' = IF raised = "none" THEN "done" ELSE "caught"
  /\ UNCHANGED <<vars, textVars, partVars, markers, variant, site, visited, retryVars, raised, collectVars,
                 postNum, contacted, delayed, paced>>

NextLegacy ==
  \/ LegacyLaunch
  \/ LegacyNewPage
  \/ LegacyGoto
  \/ LegacyPageCount
  \/ LegacyExtract
  \/ LegacyNextPage
  \/ LegacyReturnPosts
  \/ LegacyCloseBrowser

SpecLegacy == InitLegacy /\ [][NextLegacy]_allVars

\* ================================================================= text
\* The functions on text, applied to characters: a string is the sequence of
\* its characters, each a string of one character; a Cyrillic letter is
\* written as its code point, "U+044F" for the last letter of the alphabet.

\* ---------------------------------------------------------------- strings
\* String.prototype.startsWith
startsWith(t, p) == Len(p) <= Len(t) /\ SubSeq(t, 1, Len(p)) = p

\* t.slice(n)
drop(t, n) == SubSeq(t, n + 1, Len(t))

\* The least position, from position `from` on, where p occurs in t; 0 when
\* there is none.
indexOf(t, p, from) ==
  LET S == {j \in from..(Len(t) - Len(p) + 1) : SubSeq(t, j, j + Len(p) - 1) = p}
  IN IF S = {} THEN 0 ELSE CHOOSE m \in S : \A n \in S : m <= n

\* The number of characters of the class S that follow each other from
\* position j of t on.
RECURSIVE runLength(_, _, _)
runLength(t, j, S) ==
  IF j >= 1 /\ j <= Len(t) /\ t[j] \in S THEN 1 + runLength(t, j + 1, S) ELSE 0

\* t matches, from position j on, one character of each class of pat in turn.
matchesAt(t, j, pat) ==
  /\ j >= 1
  /\ j + Len(pat) - 1 <= Len(t)
  /\ \A k \in DOMAIN pat : t[j + k - 1] \in pat[k]

\* The position of the leftmost match of pat in t, 0 when there is none.
firstMatch(t, pat) ==
  LET S == {j \in 1..Len(t) : matchesAt(t, j, pat)}
  IN IF S = {} THEN 0 ELSE CHOOSE m \in S : \A n \in S : m <= n

\* ------------------------------------------------------------- formatDate
UnknownDate ==
  <<"u", "n", "k", "n", "o", "w", "n", "-", "d", "a", "t", "e">>

\* /^(\d{4}-\d{2}-\d{2})/
IsoPattern ==
  <<Digits, Digits, Digits, Digits, {"-"}, Digits, Digits, {"-"}, Digits, Digits>>

\* /(\d{2})\.(\d{2})\.(\d{4})/
DottedPattern ==
  <<Digits, Digits, {"."}, Digits, Digits, {"."}, Digits, Digits, Digits, Digits>>

\* [а-яА-Я]: the letters from U+0410 to U+044F, capitals first.
CyrillicCapitals ==
  <<"U+0410", "U+0411", "U+0412", "U+0413", "U+0414", "U+0415", "U+0416",
    "U+0417", "U+0418", "U+0419", "U+041A", "U+041B", "U+041C", "U+041D",
    "U+041E", "U+041F", "U+0420", "U+0421", "U+0422", "U+0423", "U+0424",
    "U+0425", "U+0426", "U+0427", "U+0428", "U+0429", "U+042A", "U+042B",
    "U+042C", "U+042D", "U+042E", "U+042F">>

CyrillicSmall ==
  <<"U+0430", "U+0431", "U+0432", "U+0433", "U+0434", "U+0435", "U+0436",
    "U+0437", "U+0438", "U+0439", "U+043A", "U+043B", "U+043C", "U+043D",
    "U+043E", "U+043F", "U+0440", "U+0441", "U+0442", "U+0443", "U+0444",
    "U+0445", "U+0446", "U+0447", "U+0448", "U+0449", "U+044A", "U+044B",
    "U+044C", "U+044D", "U+044E", "U+044F">>

Cyrillic ==
  {CyrillicCapitals[k] : k \in DOMAIN CyrillicCapitals}
    \cup {CyrillicSmall[k] : k \in DOMAIN CyrillicSmall}

\* String.prototype.toLowerCase on a word of these letters
toLowerCase(word) ==
  [k \in DOMAIN word |->
     IF \E n \in DOMAIN CyrillicCapitals : CyrillicCapitals[n] = word[k]
     THEN CyrillicSmall[CHOOSE n \in DOMAIN CyrillicCapitals :
                          CyrillicCapitals[n] = word[k]]
     ELSE word[k]]

\* The keys of russianMonths, in the order of their values '01'..'12':
\* yanvarya, fevralya, marta, aprelya, maya, iyunya,
\* iyulya, avgusta, sentyabrya, oktyabrya, noyabrya, dekabrya.
russianMonths ==
  <<<<"U+044F", "U+043D", "U+0432", "U+0430", "U+0440", "U+044F">>,
    <<"U+0444", "U+0435", "U+0432", "U+0440", "U+0430", "U+043B", "U+044F">>,
    <<"U+043C", "U+0430", "U+0440", "U+0442", "U+0430">>,
    <<"U+0430", "U+043F", "U+0440", "U+0435", "U+043B", "U+044F">>,
    <<"U+043C", "U+0430", "U+044F">>,
    <<"U+0438", "U+044E", "U+043D", "U+044F">>,
    <<"U+0438", "U+044E", "U+043B", "U+044F">>,
    <<"U+0430", "U+0432", "U+0433", "U+0443", "U+0441", "U+0442", "U+0430">>,
    <<"U+0441", "U+0435", "U+043D", "U+0442", "U+044F", "U+0431", "U+0440",
      "U+044F">>,
    <<"U+043E", "U+043A", "U+0442", "U+044F", "U+0431", "U+0440", "U+044F">>,
    <<"U+043D", "U+043E", "U+044F", "U+0431", "U+0440", "U+044F">>,
    <<"U+0434", "U+0435", "U+043A", "U+0430", "U+0431", "U+0440", "U+044F">>>>

\* The characters of the decimal digit n.
DigitChar(n) == <<"0", "1", "2", "3", "4", "5", "6", "7", "8", "9">>[n + 1]

\* russianMonths[word]: the two digits of the month, <<>> for undefined.
monthOf(word) ==
  LET S == {k \in DOMAIN russianMonths : russianMonths[k] = word}
  IN IF S = {} THEN <<>>
     ELSE LET k == CHOOSE n \in S : TRUE
          IN <<DigitChar(k \div 10), DigitChar(k % 10)>>

\* /(\d{1,2})\s+([а-яА-Я]+)\s+(\d{4})/ at position j of t: the lengths of
\* the day, of the whitespace after it, of the word and of the whitespace
\* after that; every quantifier takes all it can, and giving back never
\* helps, since what follows a run cannot start inside it.
russianLengths(t, j) ==
  LET d == IF matchesAt(t, j, <<Digits, Digits>>) THEN 2
           ELSE IF matchesAt(t, j, <<Digits>>) THEN 1 ELSE 0
      w1 == runLength(t, j + d, Whitespace)
      l == runLength(t, j + d + w1, Cyrillic)
      w2 == runLength(t, j + d + w1 + l, Whitespace)
  IN <<d, w1, l, w2>>

russianMatchesAt(t, j) ==
  LET n == russianLengths(t, j)
  IN /\ n[1] > 0 /\ n[2] > 0 /\ n[3] > 0 /\ n[4] > 0
     /\ matchesAt(t, j + n[1] + n[2] + n[3] + n[4],
                  <<Digits, Digits, Digits, Digits>>)

\* String.prototype.padStart(2, '0') of one or two digits
padStart(day) == IF Len(day) < 2 THEN <<"0">> \o day ELSE day

\* formatDate of part_001, and the same steps inline in main() of
\* drive2Scraper.js: DD.MM.YYYY only.
formatDateDotted(dateStr) ==
  IF dateStr = <<>> THEN UnknownDate
  ELSE LET m == firstMatch(dateStr, DottedPattern)
       IN IF m = 0 THEN UnknownDate
          ELSE SubSeq(dateStr, m + 6, m + 9) \o <<"-">>
                 \o SubSeq(dateStr, m + 3, m + 4) \o <<"-">>
                 \o SubSeq(dateStr, m, m + 1)

\* formatDate of utils.js
formatDate(dateStr) ==
  IF dateStr = <<>> THEN UnknownDate
  ELSE IF matchesAt(dateStr, 1, IsoPattern) THEN SubSeq(dateStr, 1, 10)
  ELSE IF firstMatch(dateStr, DottedPattern) # 0 THEN formatDateDotted(dateStr)
  ELSE LET S == {j \in 1..Len(dateStr) : russianMatchesAt(dateStr, j)}
       IN IF S = {} THEN UnknownDate
          ELSE LET j == CHOOSE m \in S : \A n \in S : m <= n
                   n == russianLengths(dateStr, j)
                   day == SubSeq(dateStr, j, j + n[1] - 1)
                   word == SubSeq(dateStr, j + n[1] + n[2],
                                  j + n[1] + n[2] + n[3] - 1)
                   y == j + n[1] + n[2] + n[3] + n[4]
                   month == monthOf(toLowerCase(word))
               IN IF month = <<>> THEN UnknownDate
                  ELSE SubSeq(dateStr, y, y + 3) \o <<"-">> \o month
                         \o <<"-">> \o padStart(day)

\* The formatDate of a module.
formatDateOf(module, dateStr) ==
  IF module = "utils.js" THEN formatDate(dateStr) ELSE formatDateDotted(dateStr)

\* --------------------------------------------------- convertHtmlToMarkdown
\* t.replace(p, r) for a pattern p without operators, with the flag g
RECURSIVE replaceAll(_, _, _)
replaceAll(t, p, r) ==
  IF t = <<>> THEN <<>>
  ELSE IF startsWith(t, p) THEN r \o replaceAll(drop(t, Len(p)), p, r)
  ELSE <<Head(t)>> \o replaceAll(Tail(t), p, r)

\* t.replace(/left(.*?)right/gs, pre$1post): from left to right, an opening
\* tag is matched with the nearest closing tag after it, and what is put in
\* is not looked at again.
RECURSIVE replaceEnclosed(_, _, _, _, _)
replaceEnclosed(t, left, right, pre, post) ==
  IF t = <<>> THEN <<>>
  ELSE LET c == IF startsWith(t, left) THEN indexOf(t, right, Len(left) + 1)
                ELSE 0
       IN IF c > 0
          THEN pre \o SubSeq(t, Len(left) + 1, c - 1) \o post
                 \o replaceEnclosed(drop(t, c + Len(right) - 1),
                                    left, right, pre, post)
          ELSE <<Head(t)>> \o replaceEnclosed(Tail(t), left, right, pre, post)

\* The length of the match of /<br\s*\/?>/ at the start of t, 0 without one.
lineBreakAt(t) ==
  IF ~startsWith(t, <<"<", "b", "r">>) THEN 0
  ELSE LET k == 4 + runLength(t, 4, Whitespace)
       IN IF k <= Len(t) /\ t[k] = ">" THEN k
          ELSE IF k + 1 <= Len(t) /\ t[k] = "/" /\ t[k + 1] = ">" THEN k + 1
          ELSE 0

\* t.replace(/<br\s*\/?>/g, '\n')
RECURSIVE replaceLineBreaks(_)
replaceLineBreaks(t) ==
  IF t = <<>> THEN <<>>
  ELSE IF lineBreakAt(t) > 0
  THEN <<"\n">> \o replaceLineBreaks(drop(t, lineBreakAt(t)))
  ELSE <<Head(t)>> \o replaceLineBreaks(Tail(t))

\* t.replace(/prefix[^>]*>/g, '')
RECURSIVE removeTags(_, _)
removeTags(t, prefix) ==
  IF t = <<>> THEN <<>>
  ELSE LET g == IF startsWith(t, prefix) THEN indexOf(t, <<">">>, Len(prefix) + 1)
                ELSE 0
       IN IF g > 0 THEN removeTags(drop(t, g), prefix)
          ELSE <<Head(t)>> \o removeTags(Tail(t), prefix)

HrefAttribute == <<"h", "r", "e", "f", "=", "\"">>

AnchorEnd == <<"<", "/", "a", ">">>

\* The match of /<a[^>]*href="([^"]*)"[^>]*>(.*?)<\/a>/s at the start of t
\* for the href=" at position h: the positions of the quote that ends the
\* url, of the > that ends the tag and of the </a>, each 0 when missing.
anchorParts(t, h) ==
  LET q == indexOf(t, <<"\"">>, h + 6)
      g == IF q = 0 THEN 0 ELSE indexOf(t, <<">">>, q + 1)
      e == IF g = 0 THEN 0 ELSE indexOf(t, AnchorEnd, g + 1)
  IN <<q, g, e>>

\* The positions h at which the match at the start of t can take its
\* href=": after <a and characters other than >, with the rest matching.
anchorHrefs(t) ==
  IF ~startsWith(t, <<"<", "a">>) THEN {}
  ELSE LET gt == indexOf(t, <<">">>, 3)
           limit == IF gt = 0 THEN Len(t) + 1 ELSE gt
       IN {h \in 3..(limit - 1) :
             /\ h + 5 <= Len(t)
             /\ SubSeq(t, h, h + 5) = HrefAttribute
             /\ anchorParts(t, h)[3] > 0}

Http == <<"h", "t", "t", "p">>

Mailto == <<"m", "a", "i", "l", "t", "o", ":">>

\* The callback of the link rule: the url as it is when it is empty or starts
\* with http, # or mailto:, else made absolute.
resolveUrl(url, baseUrl) ==
  IF /\ url # <<>>
     /\ ~startsWith(url, Http)
     /\ ~startsWith(url, <<"#">>)
     /\ ~startsWith(url, Mailto)
  THEN IF startsWith(url, <<"/">>) THEN baseUrl \o url
       ELSE baseUrl \o <<"/">> \o url
  ELSE url

\* The link rule: [^>]* takes the last href=" it can.
RECURSIVE replaceAnchors(_, _)
replaceAnchors(t, baseUrl) ==
  IF t = <<>> THEN <<>>
  ELSE IF anchorHrefs(t) # {}
  THEN LET h == CHOOSE m \in anchorHrefs(t) : \A n \in anchorHrefs(t) : n <= m
           p == anchorParts(t, h)
       IN <<"[">> \o SubSeq(t, p[2] + 1, p[3] - 1) \o <<"]", "(">>
            \o resolveUrl(SubSeq(t, h + 6, p[1] - 1), baseUrl) \o <<")">>
            \o replaceAnchors(drop(t, p[3] + 3), baseUrl)
  ELSE <<Head(t)>> \o replaceAnchors(Tail(t), baseUrl)

\* t.replace(/\n{3,}/g, '\n\n')
RECURSIVE collapseNewlines(_)
collapseNewlines(t) ==
  IF t = <<>> THEN <<>>
  ELSE IF runLength(t, 1, {"\n"}) >= 3
  THEN <<"\n", "\n">> \o collapseNewlines(drop(t, runLength(t, 1, {"\n"})))
  ELSE <<Head(t)>> \o collapseNewlines(Tail(t))

POpen == <<"<", "p", ">">>
PClose == <<"<", "/", "p", ">">>
StrongOpen == <<"<", "s", "t", "r", "o", "n", "g", ">">>
StrongClose == <<"<", "/", "s", "t", "r", "o", "n", "g", ">">>
EmOpen == <<"<", "e", "m", ">">>
EmClose == <<"<", "/", "e", "m", ">">>
DelOpen == <<"<", "d", "e", "l", ">">>
DelClose == <<"<", "/", "d", "e", "l", ">">>
LiOpen == <<"<", "l", "i", ">">>
LiClose == <<"<", "/", "l", "i", ">">>
UlOpen == <<"<", "u", "l">>
UlClose == <<"<", "/", "u", "l", ">">>
Nbsp == <<"&", "n", "b", "s", "p", ";">>
Amp == <<"&", "a", "m", "p", ";">>
Lt == <<"&", "l", "t", ";">>
Gt == <<"&", "g", "t", ";">>
Quot == <<"&", "q", "u", "o", "t", ";">>

\* The rules of convertHtmlToMarkdown in their order, for html without a
\* <figure> (the two figure rules of utils.js then change nothing).
convertHtmlToMarkdown(html, baseUrl) ==
  LET paragraphs == replaceEnclosed(html, POpen, PClose, <<>>, <<"\n", "\n">>)
      breaks == replaceLineBreaks(paragraphs)
      strong == replaceEnclosed(breaks, StrongOpen, StrongClose,
                                <<"*", "*">>, <<"*", "*">>)
      em == replaceEnclosed(strong, EmOpen, EmClose, <<"*">>, <<"*">>)
      del == replaceEnclosed(em, DelOpen, DelClose, <<"~", "~">>, <<"~", "~">>)
      links == replaceAnchors(del, baseUrl)
      items == replaceEnclosed(links, LiOpen, LiClose, <<"-", " ">>, <<"\n">>)
      listed == replaceAll(removeTags(items, UlOpen), UlClose, <<"\n">>)
      text == removeTags(listed, <<"<">>)
      entities == replaceAll(replaceAll(replaceAll(replaceAll(replaceAll(text,
                    Nbsp, <<" ">>), Amp, <<"&">>), Lt, <<"<">>), Gt, <<">">>),
                    Quot, <<"\"">>)
  IN trim(collapseNewlines(entities))

\* ------------------------------------------------------- generateMarkdown
\* postData.author.cars.forEach((car, index) => ...): the links of the cars,
\* from the car at index on, with ", " in front of every car but the first.
RECURSIVE carLinks(_, _, _)
carLinks(cars, index, baseUrl) ==
  IF index > Len(cars) THEN <<>>
  ELSE LET car == cars[index]
           carUrl == IF startsWith(car.url, <<"/">>) THEN baseUrl \o car.url
                     ELSE car.url
       IN (IF index > 1 THEN <<",", " ">> ELSE <<>>)
            \o <<"[">> \o car.name \o <<"]", "(">> \o carUrl \o <<")">>
            \o carLinks(cars, index + 1, baseUrl)

\* generateMarkdown(postData): the title, the date, the author with the
\* location and the cars, the rule, the metadata and the content.
generateMarkdown(postData) ==
  <<"#", " ">> \o postData.title \o <<"\n", "\n">>
    \o (IF postData.publicationDate # <<>>
        THEN <<"*", "P", "u", "b", "l", "i", "s", "h", "e", "d", ":",
                 " ">>
               \o postData.publicationDate \o <<"*", "\n", "\n">>
        ELSE <<>>)
    \o <<"*", "*", "A", "u", "t", "h", "o", "r", ":", "*", "*", " ", "[">>
    \o postData.author.name \o <<"]", "(">>
    \o postData.baseUrl \o postData.author.url \o <<")", "\n">>
    \o (IF postData.author.location # <<>>
        THEN <<"*", "*", "L", "o", "c", "a", "t", "i", "o", "n", ":",
                 "*", "*", " ">>
               \o postData.author.location \o <<"\n">>
        ELSE <<>>)
    \o (IF Len(postData.author.cars) > 0
        THEN <<"*", "*", "C", "a", "r", "s", ":", "*", "*", " ">>
               \o carLinks(postData.author.cars, 1, postData.baseUrl)
               \o <<"\n", "\n">>
        ELSE <<"\n">>)
    \o <<"-", "-", "-", "\n", "\n">>
    \o (IF postData.metadata.cost # <<>> \/ postData.metadata.mileage # <<>>
        THEN <<"#", "#", " ", "M", "e", "t", "a", "d", "a", "t", "a",
                 "\n", "\n">>
               \o (IF postData.metadata.cost # <<>>
                   THEN <<"*", " ">> \o postData.metadata.cost \o <<"\n">>
                   ELSE <<>>)
               \o (IF postData.metadata.mileage # <<>>
                   THEN <<"*", " ">> \o postData.metadata.mileage \o <<"\n">>
                   ELSE <<>>)
               \o <<"\n">>
        ELSE <<>>)
    \o <<"#", "#", " ", "C", "o", "n", "t", "e", "n", "t", "\n", "\n">>
    \o convertHtmlToMarkdown(postData.contentHtml, postData.baseUrl)


\* ---------------------------------------------------------------- inputs
MaxDateParts == 2    \* parts a date text is put together from
MaxTitleLen == 3     \* characters of a title given to createSafeFilename
MaxHtmlParts == 2    \* parts an html text is put together from

\* The concatenations of at most n of the texts of P.
RECURSIVE Concatenations(_, _)
Concatenations(P, n) ==
  IF n = 0 THEN {<<>>}
  ELSE LET shorter == Concatenations(P, n - 1)
       IN shorter \cup {s \o p : s \in shorter, p \in P}

\* The parts of the date texts: an ISO date and a time after it, a date with
\* dots, dates with a month name (two digits, one digit, capitals), a number
\* of years, the time of day as the site prints it, a letter and a space.
DateParts ==
  {<<"2", "0", "1", "4", "-", "0", "3", "-", "1", "9">>,
   <<"T", "1", "0", ":", "0", "0", ":", "0", "0", "+", "0", "3", ":", "0",
     "0">>,
   <<"1", "9", ".", "0", "3", ".", "2", "0", "1", "4">>,
   <<"1", "9", " ", "U+044F", "U+043D", "U+0432", "U+0430", "U+0440",
     "U+044F", " ", "2", "0", "1", "4">>,
   <<"9", " ", "U+043C", "U+0430", "U+044F", " ", "2", "0", "1", "4">>,
   <<"5", " ", "U+041C", "U+0410", "U+042F", " ", "2", "0", "1", "4">>,
   <<"5", " ", "U+043B", "U+0435", "U+0442", " ", "2", "0", "1", "0">>,
   <<" ", "U+0432", " ", "1", "5", ":", "1", "8">>,
   <<"x">>,
   <<" ">>}

DateInputs == Concatenations(DateParts, MaxDateParts)

\* The characters of the titles: the forbidden ones, a letter, a hyphen and
\* whitespace.
TitleChars == ForbiddenChars \cup {"A", "-", " ", "\t"}

TitleInputs == SeqsUpTo(TitleChars, MaxTitleLen)

\* The baseUrl of the calls.
BaseUrl == <<"h", "t", "t", "p", "s", ":", "/", "/", "h">>

\* The href values of the anchors.
Hrefs ==
  {<<"h", "t", "t", "p", ":", "/", "/", "e", "/", "x">>,
   <<"h", "t", "t", "p", "s", ":", "/", "/", "e">>,
   <<"f", "t", "p", ":", "/", "/", "f">>,
   <<"t", "e", "l", ":", "1">>,
   <<"/", "/", "c", "/", "x">>,
   <<"#", "t", "o", "p">>,
   <<"m", "a", "i", "l", "t", "o", ":", "a", "@", "b">>,
   <<"/", "x">>,
   <<"x">>,
   <<>>}

\* <a href="...">t</a>
Anchor(href) ==
  <<"<", "a", " ", "h", "r", "e", "f", "=", "\"">> \o href \o <<"\"", ">", "t", "<", "/", "a", ">">>

\* The parts of the html texts: tags, entities, text and the anchors.
HtmlParts ==
  {<<"<", "p", ">">>,
   <<"<", "/", "p", ">">>,
   <<"<", "b", "r", ">">>,
   <<"<", "b", "r", " ", "/", ">">>,
   <<"<", "s", "t", "r", "o", "n", "g", ">", "b", "<", "/", "s", "t", "r",
     "o", "n", "g", ">">>,
   <<"<", "e", "m", ">">>,
   <<"<", "/", "e", "m", ">">>,
   <<"<", "d", "e", "l", ">", "d", "<", "/", "d", "e", "l", ">">>,
   <<"<", "l", "i", ">", "i", "<", "/", "l", "i", ">">>,
   <<"<", "u", "l", " ", "c", "l", "a", "s", "s", "=", "\"", "c", "\"",
     ">">>,
   <<"<", "/", "u", "l", ">">>,
   <<"<", "d", "i", "v", ">">>,
   <<"&", "l", "t", ";">>,
   <<"&", "g", "t", ";">>,
   <<"&", "a", "m", "p", ";">>,
   <<"&", "n", "b", "s", "p", ";">>,
   <<"&", "q", "u", "o", "t", ";">>,
   <<"l", "t", ";">>,
   <<"b">>,
   <<"\n">>,
   <<" ">>}
    \cup {Anchor(href) : href \in Hrefs}

HtmlInputs == Concatenations(HtmlParts, MaxHtmlParts)

MaxCars == 2         \* cars of the author of a post

\* The href of the author, as getAttribute gives it, or '' without one.
AuthorUrls ==
  {<<"h", "t", "t", "p", "s", ":", "/", "/", "e", "/", "u">>,
   <<"/", "u">>,
   <<"u">>,
   <<>>}

\* The href values of the cars of the author.
CarUrls ==
  {<<"h", "t", "t", "p", "s", ":", "/", "/", "e", "/", "r">>,
   <<"/", "r">>,
   <<"r">>}

Car(url) == [name |-> <<"c">>, url |-> url]

CarLists == UNION {[1..n -> {Car(u) : u \in CarUrls}] : n \in 0..MaxCars}

\* What page.evaluate of extractBlogPost returns; a text that is missing on
\* the page is ''.
PostDatas ==
  {[title |-> <<"T">>,
    publicationDate |-> d,
    author |-> [name |-> <<"n">>, url |-> u, location |-> l, cars |-> cars],
    contentHtml |-> h,
    metadata |-> [cost |-> c, mileage |-> m],
    baseUrl |-> BaseUrl] :
     d \in {<<>>, <<"d">>}, u \in AuthorUrls, l \in {<<>>, <<"l">>},
     cars \in CarLists, h \in {<<"b">>, Anchor(<<"/", "x">>)},
     c \in {<<>>, <<"c">>}, m \in {<<>>, <<"m">>}}

\* ------------------------------------------------------------------ calls
Calls ==
  {[fn |-> "formatDate", module |-> m, arg |-> d, results |-> <<>>] :
     m \in {"utils.js", "part_001"}, d \in DateInputs}
    \cup {[fn |-> "createSafeFilename", module |-> "utils.js", arg |-> t,
           results |-> <<>>] : t \in TitleInputs}
    \cup {[fn |-> "convertHtmlToMarkdown", module |-> "utils.js", arg |-> h,
           results |-> <<>>] : h \in HtmlInputs}
    \cup {[fn |-> "generateMarkdown", module |-> "part_001", arg |-> p,
           results |-> <<>>] : p \in PostDatas}

InitText ==
  /\ source = <<>>
  /\ MainAtStart
  /\ FetchIdle
  /\ PartsIdle
  /\ call \in Calls

\* const dateStr = formatDate(post.date)
FormatDate ==
  /\ call.fn = "formatDate"
  /\ call.results = <<>>
  /\ call' = [call EXCEPT !.results = <<formatDateOf(call.module, call.arg)>>]
  /\ UNCHANGED <<vars, fetchVars, partVars>>

\* const safeTitle = createSafeFilename(post.title)
CreateSafeFilename ==
  /\ call.fn = "createSafeFilename"
  /\ call.results = <<>>
  /\ call' = [call EXCEPT !.results = <<createSafeFilename(call.arg)>>]
  /\ UNCHANGED <<vars, fetchVars, partVars>>

\* convertHtmlToMarkdown(html, baseUrl), on the html first and then once on
\* what it returned.
ConvertHtmlToMarkdown ==
  /\ call.fn = "convertHtmlToMarkdown"
  /\ Len(call.results) < 2
  /\ call' = [call EXCEPT !.results =
                Append(@, convertHtmlToMarkdown(
                            IF @ = <<>> THEN call.arg ELSE @[1], BaseUrl))]
  /\ UNCHANGED <<vars, fetchVars, partVars>>

\* const markdown = generateMarkdown(postData)
GenerateMarkdown ==
  /\ call.fn = "generateMarkdown"
  /\ call.results = <<>>
  /\ call' = [call EXCEPT !.results = <<generateMarkdown(call.arg)>>]
  /\ UNCHANGED <<vars, fetchVars, partVars>>

NextText ==
  \/ FormatDate
  \/ CreateSafeFilename
  \/ ConvertHtmlToMarkdown
  \/ GenerateMarkdown

SpecText == InitText /\ [][NextText]_allVars


\* ====================================================== retry loops, paired
\* The four retry loops written out in drive2Scraper.js and navigateWithRetry
\* of utils.js, each run on the same outcomes of page.goto: the n-th
\* page.goto of either loop ends as the n-th outcome says. SpecRetry runs the
\* two side by side, in any interleaving.

\* The loops of drive2Scraper.js: in extractCarReview, in collectBlogPosts for
\* the first page and for the pages after it, and in extractBlogPost.
Places == {"review", "firstPage", "laterPage", "post"}

\* The fetch a loop is in, and the page of the listing it loads.
siteOf(place) ==
  IF place \in {"firstPage", "laterPage"} THEN "listing" ELSE place

pageNumOf(place) == IF place = "laterPage" THEN 2 ELSE 1

\* let retries = 3; let success = false; let lastError;
LoopStart ==
  [retries |-> maxRetries, success |-> FALSE, lastError |-> "none",
   attempts |-> <<>>, waits |-> 0, result |-> "running", error |-> "none"]

\* One more outcome than a loop has attempts.
Outcomes == [1..(maxRetries + 1) -> {"ok"} \cup Errors]

\* One round of the loop of module v: page.goto, and on its error the catch
\* block.
round(l, v, place, out) ==
  [l EXCEPT !.attempts = Append(@, out),
            !.success = (out = "ok"),
            !.retries = IF out = "ok" THEN @ ELSE @ - 1,
            !.lastError = IF out # "ok" /\ storesLastError(v, siteOf(place))
                          THEN out ELSE @,
            !.waits = IF out # "ok"
                         /\ delaysAfterFailure(v, siteOf(place),
                                               pageNumOf(place), l.retries - 1)
                      THEN @ + 1 ELSE @]

\* What follows the loop: the caller goes on after a success; after a failure
\* it gets the error, or the catch of the page loop takes the next page.
afterLoop(l, place) ==
  IF l.success
  THEN [l EXCEPT !.result = "success"]
  ELSE [l EXCEPT !.result = "failure",
                 !.error = IF navigationErrorPropagates(siteOf(place),
                                                        pageNumOf(place))
                           THEN IF l.lastError # "none" THEN l.lastError
                                ELSE GenericError
                           ELSE "none"]

InitRetry ==
  /\ source = <<>>
  /\ MainAtStart
  /\ FetchIdle
  /\ TextIdle
  /\ TrackerIdle
  /\ PeersIdle
  /\ \E place \in Places, outcomes \in Outcomes :
       loops = [place |-> place, outcomes |-> outcomes,
                shared |-> LoopStart, inline |-> LoopStart]

\* A written-out loop whose catch block leaves no attempt.
InlineRoundGivingUp ==
  /\ loops.place \in Places
  /\ loops.inline.result = "running"
  /\ loopContinues(loops.inline.retries, loops.inline.success)
  /\ LET out == loops.outcomes[Len(loops.inline.attempts) + 1]
         l == round(loops.inline, "single", loops.place, out)
     IN loops' = [loops EXCEPT !.inline =
                    IF out = "ok" THEN l ELSE [l EXCEPT !.retries = 0]]
  /\ UNCHANGED <<vars, fetchVars, textVars, tracker, peers>>

\* navigateWithRetry: one round of while (retries > 0 && !success).
SharedRound ==
  /\ loops.place \in Places
  /\ loops.shared.result = "running"
  /\ loopContinues(loops.shared.retries, loops.shared.success)
  /\ loops' = [loops EXCEPT !.shared =
                 round(@, "modules", loops.place,
                       loops.outcomes[Len(@.attempts) + 1])]
  /\ UNCHANGED <<vars, fetchVars, textVars, tracker, peers>>

\* navigateWithRetry: if (!success) throw lastError || new Error(...);
\* return success.
SharedEnd ==
  /\ loops.place \in Places
  /\ loops.shared.result = "running"
  /\ ~loopContinues(loops.shared.retries, loops.shared.success)
  /\ loops' = [loops EXCEPT !.shared = afterLoop(@, loops.place)]
  /\ UNCHANGED <<vars, fetchVars, textVars, tracker, peers>>

\* drive2Scraper.js: one round of the loop written out at the place.
InlineRound ==
  /\ loops.place \in Places
  /\ loops.inline.result = "running"
  /\ loopContinues(loops.inline.retries, loops.inline.success)
  /\ loops' = [loops EXCEPT !.inline =
                 round(@, "single", loops.place,
                       loops.outcomes[Len(@.attempts) + 1])]
  /\ UNCHANGED <<vars, fetchVars, textVars, tracker, peers>>

\* drive2Scraper.js: if (!success) throw ..., or continue on a later page.
InlineEnd ==
  /\ loops.place \in Places
  /\ loops.inline.result = "running"
  /\ ~loopContinues(loops.inline.retries, loops.inline.success)
  /\ loops' = [loops EXCEPT !.inline = afterLoop(@, loops.place)]
  /\ UNCHANGED <<vars, fetchVars, textVars, tracker, peers>>

NextRetry ==
  \/ SharedRound
  \/ SharedEnd
  \/ InlineRound
  \/ InlineEnd

SpecRetry == InitRetry /\ [][NextRetry]_allVars


\* ==================================================== ledger of any shape
\* main() up to the end of the post loop, on a .progress.json whose text is
\* JSON of any shape. A JSON value is kept as far as the ledger operations
\* look at it: its type, whether it is truthy, its length property (no
\* number when it has none), and the items when it is a list. SpecShape
\* starts after the output directory was made, with the listing in source.
JsonValue(type, truthy, length, items) ==
  [type |-> type, truthy |-> truthy, length |-> length, items |-> items]

JsonUndefined == JsonValue("undefined", FALSE, {}, <<>>)
JsonNull == JsonValue("null", FALSE, {}, <<>>)
JsonFalse == JsonValue("boolean", FALSE, {}, <<>>)
JsonTrue == JsonValue("boolean", TRUE, {}, <<>>)
JsonZero == JsonValue("number", FALSE, {}, <<>>)
JsonFive == JsonValue("number", TRUE, {}, <<>>)
JsonText == JsonValue("string", TRUE, {1}, <<>>)
JsonObject == JsonValue("object", TRUE, {}, <<>>)
JsonList(items) == JsonValue("array", TRUE, {Len(items)}, items)

\* The items of a list: an entry of the ledger, null, or a text. The link
\* property is no value when the item has none.
JsonEntry(link) == [type |-> "object", link |-> {link}]
JsonNullItem == [type |-> "null", link |-> {}]
JsonTextItem == [type |-> "string", link |-> {}]

ItemLists == SeqsUpTo({JsonEntry("a"), JsonNullItem, JsonTextItem}, MaxPosts)

\* What JSON.parse returns: a value with the two properties load() reads,
\* which are undefined on anything but an object that has them.
JsonDocument(type, flag, list) ==
  [type |-> type, reviewComplete |-> flag, processedPosts |-> list]

Contents ==
  {JsonDocument(t, JsonUndefined, JsonUndefined) :
     t \in {"null", "number", "string", "boolean", "array"}}
    \cup {JsonDocument("object", flag, list) :
            flag \in {JsonUndefined, JsonFalse, JsonTrue, JsonText},
            list \in {JsonUndefined, JsonNull, JsonZero, JsonFive, JsonText,
                      JsonObject}
                       \cup {JsonList(items) : items \in ItemLists}}

\* this.data = { reviewComplete: false, processedPosts: [] }
NewTrackerData ==
  [reviewComplete |-> JsonFalse, processedPosts |-> JsonList(<<>>)]

\* value || other
orElse(value, other) == IF value.truthy THEN value ELSE other

\* load() after JSON.parse: reading a property of null raises inside the try
\* and the catch leaves this.data as it was.
loadParsed(d, progress) ==
  IF progress.type = "null" THEN d
  ELSE [reviewComplete |-> orElse(progress.reviewComplete, JsonFalse),
        processedPosts |-> orElse(progress.processedPosts, JsonList(<<>>))]

\* this.data.processedPosts.length: raises on null and undefined only.
getProcessedCountOf(d) ==
  [raised |-> d.processedPosts.type \in {"null", "undefined"},
   count |-> d.processedPosts.length]

\* items.some(p => p.link === post.link): reading the link of null raises.
RECURSIVE someLink(_, _)
someLink(items, post) ==
  IF items = <<>> THEN [raised |-> FALSE, found |-> FALSE]
  ELSE IF Head(items).type = "null" THEN [raised |-> TRUE, found |-> FALSE]
  ELSE IF post.link \in Head(items).link
       THEN [raised |-> FALSE, found |-> TRUE]
  ELSE someLink(Tail(items), post)

\* isPostProcessed(post): only a list has the method some.
isPostProcessedIn(d, post) ==
  IF d.processedPosts.type # "array" THEN [raised |-> TRUE, found |-> FALSE]
  ELSE someLink(d.processedPosts.items, post)

\* posts.filter(post => !this.isPostProcessed(post))
RECURSIVE filterRemainingPostsIn(_, _)
filterRemainingPostsIn(d, posts) ==
  IF posts = <<>> THEN [raised |-> FALSE, posts |-> <<>>]
  ELSE LET first == isPostProcessedIn(d, Head(posts))
           rest == filterRemainingPostsIn(d, Tail(posts))
       IN IF first.raised \/ rest.raised
          THEN [raised |-> TRUE, posts |-> <<>>]
          ELSE [raised |-> FALSE,
                posts |-> IF first.found THEN rest.posts
                          ELSE <<Head(posts)>> \o rest.posts]

\* JSON.stringify(this.data), parsed again.
savedDocument(d) == JsonDocument("object", d.reviewComplete, d.processedPosts)

InitShape ==
  /\ source \in Listings
  /\ MainAtStart
  /\ FetchIdle
  /\ TextIdle
  /\ LoopsIdle
  /\ PeersIdle
  /\ \E content \in Contents :
       tracker = [pc |-> "load", content |-> content, data |-> NewTrackerData,
                  resumed |-> FALSE, remaining |-> <<>>, cause |-> "none"]

\* await progress.load()
TrackerLoad ==
  /\ tracker.pc = "load"
  /\ tracker' = [tracker EXCEPT !.data = loadParsed(@, tracker.content),
                                !.pc = "count"]
  /\ UNCHANGED <<vars, fetchVars, textVars, loops, peers>>

\* if (progress.getProcessedCount() > 0): a count that is no number is not
\* above 0.
TrackerCount ==
  /\ tracker.pc = "count"
  /\ LET r == getProcessedCountOf(tracker.data)
     IN tracker' = IF r.raised
                   THEN [tracker EXCEPT !.pc = "exit1", !.cause = "count"]
                   ELSE [tracker EXCEPT !.pc = "review",
                                        !.resumed = \E n \in r.count : n > 0]
  /\ UNCHANGED <<vars, fetchVars, textVars, loops, peers>>

\* The review step: skipped when the flag is truthy; else the fetch and the
\* write of Home.md, and after them markReviewComplete with its save.
TrackerReview ==
  /\ tracker.pc = "review"
  /\ IF tracker.data.reviewComplete.truthy
     THEN tracker' = [tracker EXCEPT !.pc = "collect"]
     ELSE \E written, saved \in BOOLEAN :
            LET d == IF written
                     THEN [tracker.data EXCEPT !.reviewComplete = JsonTrue]
                     ELSE tracker.data
            IN tracker' = [tracker EXCEPT
                             !.data = d,
                             !.content = IF written /\ saved
                                         THEN savedDocument(d) ELSE @,
                             !.pc = "collect"]
  /\ UNCHANGED <<vars, fetchVars, textVars, loops, peers>>

\* const blogPosts = await collectBlogPosts(carUrl)
TrackerCollect ==
  /\ tracker.pc = "collect"
  /\ \E ok \in BOOLEAN :
       tracker' = IF ok THEN [tracker EXCEPT !.pc = "filter"]
                  ELSE [tracker EXCEPT !.pc = "exit1", !.cause = "collect"]
  /\ UNCHANGED <<vars, fetchVars, textVars, loops, peers>>

\* const remainingPosts = progress.filterRemainingPosts(blogPosts): what it
\* raises reaches the catch of main().
TrackerFilter ==
  /\ tracker.pc = "filter"
  /\ LET r == filterRemainingPostsIn(tracker.data, source)
     IN tracker' = IF r.raised
                   THEN [tracker EXCEPT !.pc = "exit1", !.cause = "filter"]
                   ELSE [tracker EXCEPT !.pc = "loop", !.remaining = r.posts]
  /\ UNCHANGED <<vars, fetchVars, textVars, loops, peers>>

\* One round of the post loop: the fetch and the write, and after them
\* markPostProcessed with its save; an error goes to the catch of the round.
TrackerPost ==
  /\ tracker.pc = "loop"
  /\ tracker.remaining # <<>>
  /\ \E written, saved \in BOOLEAN :
       LET d == IF written
                THEN [tracker.data EXCEPT !.processedPosts =
                        JsonList(Append(@.items,
                                        JsonEntry(Head(tracker.remaining).link)))]
                ELSE tracker.data
       IN tracker' = [tracker EXCEPT
                        !.data = d,
                        !.content = IF written /\ saved
                                    THEN savedDocument(d) ELSE @,
                        !.remaining = Tail(@)]
  /\ UNCHANGED <<vars, fetchVars, textVars, loops, peers>>

\* The loop is over.
TrackerFinish ==
  /\ tracker.pc = "loop"
  /\ tracker.remaining = <<>>
  /\ tracker' = [tracker EXCEPT !.pc = "done"]
  /\ UNCHANGED <<vars, fetchVars, textVars, loops, peers>>

NextShape ==
  \/ TrackerLoad
  \/ TrackerCount
  \/ TrackerReview
  \/ TrackerCollect
  \/ TrackerFilter
  \/ TrackerPost
  \/ TrackerFinish

SpecShape == InitShape /\ [][NextShape]_allVars


\* ============================================== two runs on one directory
\* Two processes started on the same output directory with the same listing,
\* each with its own ProgressTracker: load() reads .progress.json into
\* this.data, and every save() writes this.data over the file. Nothing locks
\* the file. SpecPeers interleaves the two at the grain of Spec; peers.file is
\* the file, peers.persisted the links whose markPostProcessed has returned.
Procs == {1, 2}

\* A process before load().
PeerStart ==
  [pc |-> "load", data |-> EmptyData, remainingPosts |-> <<>>, i |-> 1]

InitPeers ==
  /\ source \in Listings
  /\ MainAtStart
  /\ FetchIdle
  /\ TextIdle
  /\ LoopsIdle
  /\ TrackerIdle
  /\ peers = [file |-> MissingFile, procs |-> [p \in Procs |-> PeerStart],
              persisted |-> {}]

\* A round of the post loop that reads the file again before it adds its
\* entry.
PeerPostReloading ==
  \E p \in Procs :
    LET proc == peers.procs[p] IN
      /\ proc.pc = "loop"
      /\ proc.i <= Len(proc.remainingPosts)
      /\ \E written, saved \in BOOLEAN :
           LET post == proc.remainingPosts[proc.i]
               d == IF written
                    THEN pushProcessed(load(proc.data, peers.file).data, post,
                                       fileNameOf(post))
                    ELSE proc.data
           IN peers' = [peers EXCEPT
                          !.procs[p].data = d,
                          !.procs[p].i = @ + 1,
                          !.file = IF written /\ saved THEN ValidFile(d) ELSE @,
                          !.persisted = IF written /\ saved
                                        THEN @ \cup {post.link} ELSE @]
  /\ UNCHANGED <<vars, fetchVars, textVars, loops, tracker>>

\* await progress.load()
PeerLoad ==
  \E p \in Procs :
    /\ peers.procs[p].pc = "load"
    /\ peers' = [peers EXCEPT
                   !.procs[p].data = load(@, peers.file).data,
                   !.procs[p].pc = "review"]
  /\ UNCHANGED <<vars, fetchVars, textVars, loops, tracker>>

\* The review step: skipped when the flag is set; else the fetch and the
\* write of Home.md, and after them markReviewComplete with its save.
PeerReview ==
  \E p \in Procs :
    LET proc == peers.procs[p] IN
      /\ proc.pc = "review"
      /\ IF isReviewComplete(proc.data)
         THEN peers' = [peers EXCEPT !.procs[p].pc = "collect"]
         ELSE \E written, saved \in BOOLEAN :
                LET d == IF written THEN setReviewComplete(proc.data)
                         ELSE proc.data
                IN peers' = [peers EXCEPT
                               !.procs[p].data = d,
                               !.procs[p].pc = "collect",
                               !.file = IF written /\ saved THEN ValidFile(d)
                                        ELSE @]
  /\ UNCHANGED <<vars, fetchVars, textVars, loops, tracker>>

\* collectBlogPosts and filterRemainingPosts; an error of the collection ends
\* the process.
PeerCollect ==
  \E p \in Procs :
    /\ peers.procs[p].pc = "collect"
    /\ \E ok \in BOOLEAN :
         peers' = IF ok
                  THEN [peers EXCEPT
                          !.procs[p].remainingPosts =
                             filterRemainingPosts(peers.procs[p].data, source),
                          !.procs[p].pc = "loop"]
                  ELSE [peers EXCEPT !.procs[p].pc = "exit1"]
  /\ UNCHANGED <<vars, fetchVars, textVars, loops, tracker>>

\* One round of the post loop: the fetch and the write of the document, and
\* after them markPostProcessed, which pushes the entry and saves.
PeerPost ==
  \E p \in Procs :
    LET proc == peers.procs[p] IN
      /\ proc.pc = "loop"
      /\ proc.i <= Len(proc.remainingPosts)
      /\ \E written, saved \in BOOLEAN :
           LET post == proc.remainingPosts[proc.i]
               d == IF written
                    THEN pushProcessed(proc.data, post, fileNameOf(post))
                    ELSE proc.data
           IN peers' = [peers EXCEPT
                          !.procs[p].data = d,
                          !.procs[p].i = @ + 1,
                          !.file = IF written /\ saved THEN ValidFile(d) ELSE @,
                          !.persisted = IF written /\ saved
                                        THEN @ \cup {post.link} ELSE @]
  /\ UNCHANGED <<vars, fetchVars, textVars, loops, tracker>>

\* The loop is over.
PeerFinish ==
  \E p \in Procs :
    /\ peers.procs[p].pc = "loop"
    /\ peers.procs[p].i > Len(peers.procs[p].remainingPosts)
    /\ peers' = [peers EXCEPT !.procs[p].pc = "done"]
  /\ UNCHANGED <<vars, fetchVars, textVars, loops, tracker>>

NextPeers ==
  \/ PeerLoad
  \/ PeerReview
  \/ PeerCollect
  \/ PeerPost
  \/ PeerFinish

SpecPeers == InitPeers /\ [][NextPeers]_allVars


\* ============================================================ properties
\* What load() of a fresh process yields from a ledger file.
Loaded(f) == load(EmptyData, f).data

\* The run has passed load(): startFile is the file that load() read.
PastLoad ==
  \/ pc \in Running \ {"start", "load"}
  \/ pc = "done"
  \/ pc = "exit1" /\ exitCause # "mkdir"

Links(pp) == {pp[k].link : k \in DOMAIN pp}

Probe(l) == [link |-> l, title |-> <<>>]

EntryOf(post) ==
  [link |-> post.link, title |-> post.title, fileName |-> fileNameOf(post)]

\* Entries of the log whose post got a document written in this run.
Saved == SelectSeq(log, LAMBDA e : e.result \in {"written", "saveFail", "ok"})

\* Entries of the log whose fetch succeeded.
Fetched == SelectSeq(log, LAMBDA e : e.result # "fetchFail")

\* Entries of the log whose post was pushed onto processedPosts.
Pushed == SelectSeq(log, LAMBDA e : e.result \in {"saveFail", "ok"})

NoDiskFailure == \A k \in DOMAIN log : log[k].result \notin {"writeFail", "saveFail"}

\* --------------------------------------------------------------------- C1
\* C1: every unit the ledger loaded at the start of a run records as
\* complete is skipped in that run: with reviewComplete loaded as true the
\* review is neither fetched nor is Home.md written, and no post whose link
\* is in the loaded processedPosts is fetched or written.
C1_CompletedUnitsSkipped ==
  /\ Loaded(startFile).reviewComplete => reviewOutcome \in {"none", "skipped"}
  /\ \A k \in DOMAIN log :
       log[k].post.link \notin Links(Loaded(startFile).processedPosts)

\* A second run that loaded a ledger with the review and a listed post
\* complete, skipped both and fetched another post.
C1_Witness ==
  /\ pc = "done"
  /\ Loaded(startFile).reviewComplete
  /\ \E k \in DOMAIN blogPosts :
       blogPosts[k].link \in Links(Loaded(startFile).processedPosts)
  /\ log # <<>>

\* --------------------------------------------------------------------- C2
\* The source does not change between runs (source is never assigned).
\* C2 as stated: a run that follows a finished run writes no post file and
\* leaves the ledger file as it found it.
C2_SecondRunChangesNothing ==
  (run >= 2 /\ prev.done /\ PastLoad) => Saved = <<>> /\ file = startFile

\* The first run left everything complete: the review, and every post the
\* source lists.
Complete(f) ==
  /\ f.kind = "valid"
  /\ f.data.reviewComplete
  /\ \A k \in DOMAIN source : source[k].link \in Links(f.data.processedPosts)

\* C2 (amended): when the earlier run left reviewComplete true and every
\* listed post in processedPosts, the next run on the unchanged source
\* fetches nothing but the listing, writes no document and leaves the
\* ledger file exactly as it found it.
C2_IdempotentWhenComplete ==
  (PastLoad /\ Complete(startFile)) =>
     /\ log = <<>>
     /\ reviewOutcome \in {"none", "skipped"}
     /\ file = startFile
     /\ (pc \in {"loop", "done"} => remainingPosts = <<>>)

\* A second run that found two listed posts and the review complete,
\* collected the whole listing and finished.
C2_Witness ==
  /\ run = 2
  /\ pc = "done"
  /\ prev.done
  /\ Complete(startFile)
  /\ Len(source) >= 2
  /\ blogPosts = source

\* --------------------------------------------------------------------- C3
\* C3: whatever posts of remainingPosts fail to fetch, the run reaches its
\* end with exit status 0 (no run that has attempted a post exits with
\* status 1); every post was attempted, in list order; the ledger entries
\* appended in this run are those of the posts pushed, in list order; and
\* when no document or ledger write failed, the posts with a document
\* written and the posts with a ledger entry appended and persisted are
\* exactly the posts whose fetch succeeded, in list order.
C3_PartialFailure ==
  /\ pc = "exit1" => log = <<>>
  /\ pc = "done" =>
       /\ Len(log) = Len(remainingPosts)
       /\ \A k \in DOMAIN log : log[k].post = remainingPosts[k]
       /\ data.processedPosts =
            Loaded(startFile).processedPosts
              \o [k \in DOMAIN Pushed |-> EntryOf(Pushed[k].post)]
       /\ \A k \in DOMAIN Saved : fileNameOf(Saved[k].post) \in docs
       /\ NoDiskFailure =>
            /\ Saved = Fetched
            /\ data.processedPosts =
                 Loaded(startFile).processedPosts
                   \o [k \in DOMAIN Fetched |-> EntryOf(Fetched[k].post)]
            /\ Fetched # <<>> => file = ValidFile(data)

\* A run on a ledger that held an entry: the first remaining post failed
\* to fetch and the next one, with another link, was fetched, written and
\* marked as the one new entry.
C3_Witness ==
  /\ pc = "done"
  /\ Len(log) = MaxPosts
  /\ log[1].result = "fetchFail"
  /\ \A k \in 2..Len(log) : log[k].result = "ok" /\ log[k].post.link # log[1].post.link
  /\ Len(data.processedPosts) = Len(Loaded(startFile).processedPosts) + MaxPosts - 1

\* --------------------------------------------------------------------- C4
NoDuplicateLinks(pp) ==
  \A j, k \in DOMAIN pp : pp[j].link = pp[k].link => j = k

\* C4: processedPosts, in memory and in the ledger file, never holds two
\* entries with the same link, and no link is fetched and saved twice in a
\* run, whatever the collected listing repeats.
C4_LinksUnique ==
  /\ NoDuplicateLinks(data.processedPosts)
  /\ NoDuplicateLinks(file.data.processedPosts)
  /\ \A j, k \in DOMAIN Saved : Saved[j].post.link = Saved[k].post.link => j = k

\* --------------------------------------------------------------------- C5
\* C5: the persisted ledger only grows: every step leaves the persisted
\* processedPosts a prefix of the next persisted list, and a persisted
\* reviewComplete of true stays true.
C5_LedgerAppendOnly ==
  [][/\ IsPrefix(file.data.processedPosts, file'.data.processedPosts)
     /\ file.data.reviewComplete => file'.data.reviewComplete]_vars

\* A later run extended the list an earlier run had persisted.
C5_Witness ==
  /\ run = 2
  /\ startFile.kind = "valid"
  /\ startFile.data.reviewComplete
  /\ Len(startFile.data.processedPosts) >= 1
  /\ Len(file.data.processedPosts) > Len(startFile.data.processedPosts)

\* --------------------------------------------------------------------- C6
\* C6: once markPostProcessed has returned for a link, isPostProcessed is
\* true for it in every later state of a process that has loaded the
\* ledger, and it is true again for a new process that loads the ledger
\* file as it is now (after a termination between two steps).
C6_MarkIsDurable ==
  \A l \in marked :
    /\ isPostProcessed(Loaded(file), Probe(l))
    /\ PastLoad => isPostProcessed(data, Probe(l))

\* A process was terminated after a mark; the next one has loaded the
\* ledger.
C6_Witness ==
  /\ run = 2
  /\ ~prev.done
  /\ pc = "review"
  /\ Cardinality(marked) = 2

\* --------------------------------------------------------------------- C7
\* C7: load() never raises; from a missing or invalid .progress.json the
\* ledger after load() is empty and the run goes on as a fresh extraction,
\* with the review to be extracted.
C7_LoadFailsSoft ==
  /\ exitCause # "load"
  /\ (pc = "review" /\ startFile.kind \in {"missing", "invalid"}) =>
        /\ data = EmptyData
        /\ getProcessedCount(data) = 0
  /\ (PastLoad /\ startFile.kind \in {"missing", "invalid"}) =>
        reviewOutcome # "skipped"

\* load() found a file that is not JSON, in a directory that holds the
\* documents of an earlier run.
C7_Witness ==
  /\ pc = "review"
  /\ startFile.kind = "invalid"
  /\ docs # {}

\* --------------------------------------------------------------------- C8
\* Positions of S whose link no entry of L carries.
KeptPositions(S, L) ==
  {k \in DOMAIN S : \A j \in DOMAIN L : L[j].link # S[k].link}

\* R holds exactly the elements of S at the kept positions, in S's order.
IsFilterResult(R, S, L) ==
  LET K == KeptPositions(S, L) IN
    /\ Len(R) = Cardinality(K)
    /\ \A k \in K : R[Cardinality({j \in K : j <= k})] = S[k]

\* C8: filterRemainingPosts returns exactly the posts whose link is the
\* link of no processedPosts entry, in their order, and changes neither
\* the list it is given nor the ledger.
C8_FilterRemaining ==
  [][(pc = "filter" /\ pc' = "loop") =>
       /\ IsFilterResult(remainingPosts', blogPosts, data.processedPosts)
       /\ blogPosts' = blogPosts
       /\ data' = data]_vars

\* The filter has just run on a listing of which the ledger holds the
\* first post: it dropped that one and kept the one behind it.
C8_Witness ==
  /\ pc = "loop"
  /\ log = <<>>
  /\ Len(blogPosts) = 2
  /\ blogPosts[1].link \in Links(data.processedPosts)
  /\ remainingPosts = <<blogPosts[2]>>

\* --------------------------------------------------------------------- C9
ReviewFailed == reviewOutcome \in {"fetchFail", "writeFail"}

\* C9: when the review step fails in its fetch or in writing Home.md,
\* reviewComplete is neither set nor persisted and the run goes on to the
\* collection; a run that follows one whose review failed does not skip
\* the review; when the step succeeds, reviewComplete is set and persisted
\* when the collection starts.
C9_ReviewStep ==
  /\ ReviewFailed =>
       /\ ~data.reviewComplete
       /\ ~Loaded(file).reviewComplete
       /\ \/ pc \in {"collect", "filter", "loop", "writePost", "markPost", "done"}
          \/ pc = "exit1" /\ exitCause = "collect"
  /\ prev.reviewFailed => reviewOutcome # "skipped"
  /\ reviewOutcome = "ok" =>
       /\ data.reviewComplete
       /\ Loaded(file).reviewComplete

\* The review failed in the previous run and has succeeded in this one.
C9_Witness ==
  /\ run = 2
  /\ prev.reviewFailed
  /\ pc = "collect"
  /\ reviewOutcome = "ok"

\* -------------------------------------------------------------------- C10
\* C10: once the output directory exists no failure aborts the run: the
\* only error that ends a run with status 1 is the directory creation.
C10_OnlyMkdirIsFatal == pc = "exit1" => exitCause = "mkdir"

\* ----------------------------------------------------- fetches, observed
\* main() of SpecFetch is between two fetches, or has ended.
InMain == fpc \in {"review", "collect", "posts", "nextPost", "done", "exit1"}

\* The errors a navigation that used up its attempts ends a fetch with.
NavigationErrors == Errors \cup {GenericError}

\* The navigation to the first listing page failed on every attempt.
FirstPageFailed == pageLog # <<>> /\ pageLog[1].result = "navFail"

\* The posts of the pages from p to n that pageLog records as extracted, in
\* page order.
RECURSIVE PostsOfExtracted(_, _)
PostsOfExtracted(p, n) ==
  IF p > n THEN <<>>
  ELSE (IF \E k \in DOMAIN pageLog :
             pageLog[k].page = p /\ pageLog[k].result = "extracted"
        THEN pageOf(source, p) ELSE <<>>) \o PostsOfExtracted(p + 1, n)

\* -------------------------------------------------------------------- C11
\* C11: when navigation to the first listing page has failed on every
\* attempt, collectBlogPosts ends with a navigation error that reaches its
\* caller, and returns no list; it has extracted nothing and has navigated
\* to no other page.
C11_FirstPageFailureRaises ==
  FirstPageFailed =>
    /\ pageLog = <<[page |-> 1, result |-> "navFail"]>>
    /\ visited = {<<"listing", 1>>}
    /\ allPosts = <<>>
    /\ raised \in NavigationErrors
    /\ fpc \in {"finally", "exit1"}

\* The error of the first page has reached main(), whose catch has exited.
C11_Witness == FirstPageFailed /\ fpc = "exit1" /\ open = 0

\* -------------------------------------------------------------------- C12
\* C12: when the first listing page loaded, collectBlogPosts does not raise
\* whichever of the later pages fail every attempt: it goes through the
\* pages 1..totalPages in ascending order and returns the posts of exactly
\* the pages that loaded and extracted, page after page, each page in
\* document order.
C12_LaterPageFailuresSkip ==
  (pageLog # <<>> /\ ~FirstPageFailed) =>
    /\ \A k \in DOMAIN pageLog : pageLog[k].page = k
    /\ Len(pageLog) <= totalPages
    /\ allPosts = PostsOfExtracted(1, totalPages)
    /\ fpc # "exit1"
    /\ site = "listing" => raised = "none"
    /\ (site = "post" \/ fpc \in {"posts", "done"}) => Len(pageLog) = totalPages

\* Three pages, the second of which failed every attempt: the result is the
\* first page followed by the third.
C12_Witness ==
  /\ fpc = "posts"
  /\ Len(pageLog) = 3
  /\ pageLog[1].result = "extracted"
  /\ pageLog[2].result = "navFail"
  /\ pageLog[3].result = "extracted"
  /\ allPosts = pageOf(source, 1) \o pageOf(source, 3)
  /\ allPosts # <<>>

\* -------------------------------------------------------------------- C13
\* C13: one retry loop calls page.goto at most maxRetries times, never again
\* after a call that succeeded, and ends with success exactly when a call
\* succeeded: it has made as many calls as it took to succeed, or maxRetries
\* when none did.
C13_BoundedRetries ==
  /\ Len(attempts) <= maxRetries
  /\ \A k \in DOMAIN attempts : attempts[k] = "ok" => k = Len(attempts)
  /\ success <=> (\E k \in DOMAIN attempts : attempts[k] = "ok")
  /\ (fpc = "goto" /\ ~success /\ ~loopContinues(retries, success))
       => Len(attempts) = maxRetries
  /\ fpc \in {"getPageCount", "extract", "evaluate"} => success
  /\ (site # "listing" /\ raised \in NavigationErrors)
       => ~success /\ Len(attempts) = maxRetries

\* A loop that succeeded on its last attempt.
C13_Witness ==
  /\ fpc = "evaluate"
  /\ Len(attempts) = maxRetries
  /\ attempts[maxRetries] = "ok"
  /\ retries = 1

\* -------------------------------------------------------------------- C14
\* C14: a fetch whose navigation failed on every attempt ends with the error
\* of its last attempt, at every fetch site.
C14_LastErrorRaised ==
  raised \in NavigationErrors => raised = attempts[Len(attempts)]

\* -------------------------------------------------------------------- C15
\* C15: whenever a fetch has returned to main() or has raised into it, the
\* browser it launched is closed, whichever way the fetch ended; main() ends
\* with no browser open.
C15_SessionsClosed == InMain => open = 0

\* A post fetch whose extraction failed after a successful navigation has
\* raised into main() with its browser closed.
C15_Witness ==
  /\ fpc = "nextPost"
  /\ site = "post"
  /\ raised = "evaluate"
  /\ visited # {}
  /\ open = 0

C17_DelayBeforeEveryContact ==
  (fpc = "goto" /\ loopContinues(retries, success) /\ contacted) => delayed

\* -------------------------------------------------------------------- C19
\* C19: when every awaited call returns or fails in finite time, main()
\* ends: it returns, or its catch exits with status 1.
C19_Terminates == <>FetchesEnded

\* A run that ended after a collection of several pages and a last post
\* fetch that used up its attempts.
C19_Witness ==
  /\ fpc = "done"
  /\ totalPages > 1
  /\ Len(pageLog) = totalPages
  /\ allPosts # <<>>
  /\ site = "post"
  /\ ~success
  /\ Len(attempts) = maxRetries

\* -------------------------------------------------------------------- C18
\* C18: in a run that got past the collection, the posts of remainingPosts
\* are attempted one by one in order, whatever the earlier attempts came to;
\* the run ends only when the last one has been attempted; and no post is
\* attempted twice in the run.
C18_EachRemainingPostOnce ==
  pc \in {"loop", "writePost", "markPost", "done"} =>
    /\ Len(log) <= Len(remainingPosts)
    /\ \A k \in DOMAIN log : log[k].post = remainingPosts[k]
    /\ Len(log) = IF pc \in {"writePost", "markPost"} THEN i ELSE i - 1
    /\ pc = "done" => Len(log) = Len(remainingPosts)
    /\ \A j, k \in DOMAIN log : log[j].post.link = log[k].post.link => j = k

\* -------------------------------------------------------------------- C20
\* C20: while the output directory does not exist, main() has not got past
\* its creation: when the creation has failed the run has exited with status
\* 1 from the outer catch, and it has fetched nothing, written no document
\* and left the ledger file absent.
C20_NoDirectoryNoWork ==
  /\ ~dirExists =>
       /\ pc \in {"start", "exit1", "crashed"}
       /\ file = MissingFile
       /\ docs = {}
       /\ reviewOutcome = "none"
       /\ blogPosts = <<>>
       /\ log = <<>>
  /\ exitCause = "mkdir" => ~dirExists /\ pc = "exit1"

\* fs.mkdir has failed and the run has exited.
C20_Witness == pc = "exit1" /\ exitCause = "mkdir" /\ ~dirExists

\* -------------------------------------------------------------------- C21
\* C21: what a run fetches and marks is fixed by the ledger file it loaded
\* and the listing it collected, whatever documents the directory holds: the
\* review is skipped exactly when the loaded ledger has reviewComplete, the
\* posts attempted are those of the listing whose link the loaded ledger
\* lacks, and processedPosts is the loaded list followed by the entries of
\* the posts this run saved.
C21_LedgerAloneDecides ==
  /\ (pc \in {"collect", "filter", "loop", "writePost", "markPost", "done"}
      \/ (pc = "exit1" /\ exitCause = "collect"))
       => (reviewOutcome = "skipped" <=> Loaded(startFile).reviewComplete)
  /\ pc \in {"loop", "writePost", "markPost", "done"} =>
       /\ remainingPosts = filterRemainingPosts(Loaded(startFile), blogPosts)
       /\ \A k \in DOMAIN log : log[k].post = remainingPosts[k]
       /\ data.processedPosts =
            Loaded(startFile).processedPosts
              \o [k \in DOMAIN Pushed |-> EntryOf(Pushed[k].post)]

\* A second run that fetched the review and the first post although Home.md
\* and the file of that post were in the directory already.
C21_Witness ==
  /\ run = 2
  /\ pc = "writePost"
  /\ Len(log) = 1
  /\ reviewOutcome \notin {"none", "skipped"}
  /\ HomeMd \in docs
  /\ fileNameOf(log[1].post) \in docs

\* -------------------------------------------------------------------- C26
\* C26: a completion is recorded only after its document was written: when
\* reviewComplete is true, in memory or in the ledger file, Home.md is in
\* the directory, and the fileName of every processedPosts entry is the name
\* of a document in the directory; a unit whose write failed is not marked.
C26_MarkedOnlyAfterWrite ==
  /\ \A d \in {data, file.data} :
       /\ d.reviewComplete => HomeMd \in docs
       /\ \A k \in DOMAIN d.processedPosts : d.processedPosts[k].fileName \in docs
  /\ reviewOutcome = "writeFail" => ~data.reviewComplete /\ ~file.data.reviewComplete
  /\ pc \in {"loop", "writePost", "markPost", "done"} =>
       Len(data.processedPosts) = Len(Loaded(startFile).processedPosts) + Len(Pushed)

\* The write of a post's document failed and the run went on: the ledger has
\* no entry for it.
C26_Witness ==
  /\ pc = "done"
  /\ Len(log) = 1
  /\ log[1].result = "writeFail"
  /\ reviewOutcome = "ok"
  /\ file.data.reviewComplete
  /\ file.data.processedPosts = <<>>

\* -------------------------------------------------------------------- C30
\* C30: when a run was terminated with the file of a listed post written and
\* no ledger entry for it persisted, and the next run, on the same source,
\* has ended with every post it attempted fetched, written and marked, then
\* that post was attempted again, its file is in the directory and the ledger
\* holds exactly one entry for it.
C30_RewriteAfterCrash ==
  (run = 2 /\ pc = "done" /\ \A k \in DOMAIN log : log[k].result = "ok")
    => \A k \in DOMAIN blogPosts :
         blogPosts[k].link \in prev.unmarked =>
           /\ \E n \in DOMAIN log : log[n].post = blogPosts[k]
           /\ fileNameOf(blogPosts[k]) \in docs
           /\ Cardinality({j \in DOMAIN file.data.processedPosts :
                file.data.processedPosts[j].link = blogPosts[k].link}) = 1

\* -------------------------------------------------------------------- C27
\* C27: whenever the page loop is about to make the first navigation of an
\* iteration for a page k >= 2, and whenever the post loop has started the
\* fetch of a post and has not navigated yet, the fixed delay of that
\* iteration has been waited since the last contact with the site, whatever
\* the previous iteration's result was.
C27_PacedIterations ==
  /\ (site = "listing" /\ pageNum >= 2 /\ fpc = "goto" /\ attempts = <<>>)
       => paced
  /\ (site = "post" /\ fpc \in {"newPage", "goto"} /\ attempts = <<>>) => paced

\* The navigation to page 2 failed on every try and was skipped; the loop is
\* about to navigate to page 3 and has waited again.
C27_Witness ==
  /\ site = "listing"
  /\ pageNum = 3
  /\ fpc = "goto"
  /\ attempts = <<>>
  /\ Len(pageLog) = 2
  /\ pageLog[2].result = "navFail"
  /\ paced

\* -------------------------------------------------------------------- C28
NoMarkerParses ==
  \A k \in DOMAIN markers : parseInt(trim(markers[k])) = NaN

\* The page count is assigned only by the step that follows the load of the
\* first page, before any page was processed.
PageCountComputedOnce ==
  totalPages' # totalPages =>
    /\ fpc = "getPageCount"
    /\ pageNum = 1
    /\ pageLog = <<>>
    /\ visited = {<<"listing", 1>>}

\* While pages 2..N are visited the page count stays what it was.
PageCountKept ==
  (site = "listing" /\ site' = "listing" /\ (pageNum >= 2 \/ pageNum' >= 2))
    => totalPages' = totalPages

\* Once the page count was computed, in the page loop and after it:
PageCountOfFirstPage ==
  (/\ site = "listing"
   /\ fpc \in {"extract", "nextPage"} \/ (fpc = "finally" /\ raised = "none")) =>
    /\ totalPages \in {getPageCount(markers), 1}
    /\ markers = <<>> => totalPages = 1
    /\ NoMarkerParses => totalPages = 1
    /\ fpc \in {"extract", "nextPage"} => pageNum <= totalPages

\* C28: the page count is computed once, from the pagination links of the first
\* listing page and before the page loop, and no later step of the collection
\* changes it; it is 1 when the page has no pagination link and 1 when no link
\* text parses as a number.
C28_PageCountFixed ==
  /\ []PageCountOfFirstPage
  /\ [][PageCountComputedOnce /\ PageCountKept]_allVars

\* The first page shows links without a number only, and the collection has
\* gone through its one page.
C28_Witness ==
  /\ site = "listing"
  /\ fpc = "nextPage"
  /\ markers # <<>>
  /\ NoMarkerParses
  /\ totalPages = 1
  /\ Len(source) > PageSize

\* -------------------------------------------------------------------- C29
\* C29: when the extraction has failed on a listing page that loaded, the
\* collection has not raised: the posts accumulated are those of the pages
\* extracted, none for the failed page, and the collection ends only after
\* every page number up to the page count was gone through.
C29_ExtractionFailureSkipsPage ==
  (\E k \in DOMAIN pageLog : pageLog[k].result = "extractFail") =>
    /\ site = "listing" => raised = "none"
    /\ allPosts = PostsOfExtracted(1, totalPages)
    /\ (site = "post" \/ fpc \in {"posts", "done", "caught", "exit1"})
         => Len(pageLog) = totalPages

\* -------------------------------------------------------------------- C22
\* r is a date YYYY-MM-DD.
IsDate(r) == Len(r) = 10 /\ matchesAt(r, 1, IsoPattern)

\* The date that a day, a month name and a year at position j of d spell,
\* <<>> when the word there is none of the twelve month names.
SpelledDate(d, j) ==
  LET n == russianLengths(d, j)
      y == j + n[1] + n[2] + n[3] + n[4]
      month == monthOf(toLowerCase(SubSeq(d, j + n[1] + n[2],
                                          j + n[1] + n[2] + n[3] - 1)))
  IN IF month = <<>> THEN <<>>
     ELSE SubSeq(d, y, y + 3) \o <<"-">> \o month \o <<"-">>
            \o padStart(SubSeq(d, j, j + n[1] - 1))

SpelledDates(d) ==
  {SpelledDate(d, j) : j \in {m \in 1..Len(d) : russianMatchesAt(d, m)}} \ {<<>>}

\* The date that the leftmost day, word and year of d spell, <<>> when d has
\* none or the word is no month name.
LeftmostSpelledDate(d) ==
  LET S == {m \in 1..Len(d) : russianMatchesAt(d, m)}
  IN IF S = {} THEN <<>>
     ELSE SpelledDate(d, CHOOSE m \in S : \A n \in S : m <= n)

\* C22: the result of formatDate, in every module that has one, is a date
\* YYYY-MM-DD or unknown-date: the first ten characters of a text that starts
\* with YYYY-MM-DD; else the DD.MM.YYYY the text contains, reordered; else the
\* date that a day number, one of the twelve month names and a four-digit
\* year in the text spell, the day with two digits; else, and for no text,
\* unknown-date.  (A text in which a day, a word that is no month name and a
\* year stand before a day, a month name and a year may give either.)
C22_FormatDate ==
  (call.fn = "formatDate" /\ call.results # <<>>) =>
    LET d == call.arg
        r == call.results[1]
        m == firstMatch(d, DottedPattern)
    IN /\ IsDate(r) \/ r = UnknownDate
       /\ IF matchesAt(d, 1, IsoPattern) THEN r = SubSeq(d, 1, 10)
          ELSE IF m # 0
          THEN r = SubSeq(d, m + 6, m + 9) \o <<"-">> \o SubSeq(d, m + 3, m + 4)
                     \o <<"-">> \o SubSeq(d, m, m + 1)
          ELSE IF LeftmostSpelledDate(d) # <<>> THEN r = LeftmostSpelledDate(d)
          ELSE IF SpelledDates(d) # {} THEN r \in SpelledDates(d) \cup {UnknownDate}
          ELSE r = UnknownDate

\* -------------------------------------------------------------------- C23
\* C23: the result of createSafeFilename holds none of the ten forbidden
\* characters and no whitespace at either end; it is the title without its
\* leading and trailing whitespace, character by character and in the same
\* order, with a hyphen in the place of each forbidden character.
C23_SafeFilename ==
  (call.fn = "createSafeFilename" /\ call.results # <<>>) =>
    LET t == call.arg
        r == call.results[1]
        lead == runLength(t, 1, Whitespace)
    IN /\ \A k \in DOMAIN r : r[k] \notin ForbiddenChars
       /\ r = <<>> \/ (r[1] \notin Whitespace /\ r[Len(r)] \notin Whitespace)
       /\ lead + Len(r) <= Len(t)
       /\ \A k \in DOMAIN r :
            r[k] = IF t[lead + k] \in ForbiddenChars THEN "-" ELSE t[lead + k]
       /\ \A k \in DOMAIN t :
            (k <= lead \/ k > lead + Len(r)) => t[k] \in Whitespace

\* A title of a forbidden character between two whitespace characters has
\* become one hyphen.
C23_Witness ==
  /\ call.fn = "createSafeFilename"
  /\ call.arg = <<" ", "/", "\t">>
  /\ call.results = <<(<<"-">>)>>

\* -------------------------------------------------------------------- C24
Letters ==
  {"a", "b", "c", "d", "e", "f", "g", "h", "i", "j", "k", "l", "m", "n", "o",
   "p", "q", "r", "s", "t", "u", "v", "w", "x", "y", "z"}

\* The url starts with a scheme: a letter, then letters, digits, +, - or .,
\* then a colon.
startsWithScheme(url) ==
  LET n == runLength(url, 1, Letters \cup Digits \cup {"+", "-", "."})
  IN /\ n > 0
     /\ url[1] \in Letters
     /\ n < Len(url)
     /\ url[n + 1] = ":"

\* C24: the anchor <a href="H">t</a> with H not empty becomes [t](target),
\* where target is H when H starts with a scheme, with # or with mailto:,
\* the base url followed by H when H starts with a slash, and the base url, a
\* slash and H for every other H.
C24_AnchorTarget ==
  \A href \in Hrefs \ {<<>>} :
    (/\ call.fn = "convertHtmlToMarkdown"
     /\ call.arg = Anchor(href)
     /\ call.results # <<>>)
      => call.results[1] =
           <<"[", "t", "]", "(">>
             \o (IF \/ startsWithScheme(href)
                    \/ startsWith(href, <<"#">>)
                    \/ startsWith(href, Mailto)
                 THEN href
                 ELSE IF startsWith(href, <<"/">>) THEN BaseUrl \o href
                 ELSE BaseUrl \o <<"/">> \o href)
             \o <<")">>

\* -------------------------------------------------------------------- C25
\* t without its whitespace.
withoutWhitespace(t) == SelectSeq(t, LAMBDA c : c \notin Whitespace)

\* C25: convertHtmlToMarkdown applied to its own result gives that result
\* again, whitespace apart, for every html text, entities included.
C25_ConvertIdempotent ==
  (call.fn = "convertHtmlToMarkdown" /\ Len(call.results) = 2) =>
    withoutWhitespace(call.results[2]) = withoutWhitespace(call.results[1])

\* -------------------------------------------------------------------- C33
\* C33: whenever main() stands between two units of work (before the
\* collection, before the filter, at the head of the post loop, at its end),
\* the ledger in memory is the ledger the file holds, also after a save that
\* failed inside markReviewComplete or markPostProcessed.
C33_MemoryMatchesFile ==
  pc \in {"collect", "filter", "loop", "done"} => data = Loaded(file)

\* -------------------------------------------------------------------- C34
\* C34: two entries of the ledger file with different links never name the
\* same file.
C34_DistinctFileNames ==
  \A j, k \in DOMAIN file.data.processedPosts :
    file.data.processedPosts[j].link # file.data.processedPosts[k].link
      => file.data.processedPosts[j].fileName # file.data.processedPosts[k].fileName

\* -------------------------------------------------------------------- C35
\* C35: when collectBlogPosts has gone through its pages and is about to
\* return, the page count it used is at least 1 and the first page, which
\* loaded, was given to the extraction.
C35_PageCountAtLeastOne ==
  (site = "listing" /\ fpc = "finally" /\ raised = "none") =>
    /\ totalPages >= 1
    /\ pageLog # <<>>
    /\ pageLog[1].page = 1
    /\ pageLog[1].result \in {"extracted", "extractFail"}

linkTarget(url, baseUrl) ==
  IF startsWith(url, Http) THEN url
  ELSE IF startsWith(url, <<"/">>) THEN baseUrl \o url
  ELSE baseUrl \o <<"/">> \o url

\* C37: the document of a post has the author line with the name of the
\* author linked to the url of the author when that url is absolute, and to
\* the base url followed by it when it starts with a slash; and it has a link
\* of the same kind for every car of the author whose url is absolute or
\* starts with a slash.
C37_AuthorAndCarLinks ==
  (call.fn = "generateMarkdown" /\ call.results # <<>>) =>
    LET author == call.arg.author
        linked(u) == startsWith(u, Http) \/ startsWith(u, <<"/">>)
        link(name, u) ==
          <<"[">> \o name \o <<"]", "(">>
            \o linkTarget(u, call.arg.baseUrl) \o <<")">>
    IN /\ linked(author.url) =>
            indexOf(call.results[1],
                    <<"*", "*", "A", "u", "t", "h", "o", "r", ":", "*", "*",
                      " ">> \o link(author.name, author.url) \o <<"\n">>,
                    1) # 0
       /\ \A k \in DOMAIN author.cars :
            linked(author.cars[k].url) =>
              indexOf(call.results[1],
                      link(author.cars[k].name, author.cars[k].url), 1) # 0


\* C31: a termination of the process, inside save() or between two steps,
\* leaves a ledger file from which load() gets the review flag and every link
\* that load() got from the file as it was before.
C31_TerminationKeepsPersisted ==
  [][pc' = "crashed" =>
       /\ isReviewComplete(Loaded(file)) => isReviewComplete(Loaded(file'))
       /\ Links(Loaded(file).processedPosts)
            \subseteq Links(Loaded(file').processedPosts)]_vars


\* C32: whatever JSON value .progress.json holds, a run does not end with an
\* error raised by load(), by getProcessedCount() or by
\* filterRemainingPosts().
C32_LedgerShapeTolerated ==
  tracker.pc = "exit1" => tracker.cause \notin {"load", "count", "filter"}


\* -------------------------------------------------------------------- C36
\* The ledger in memory of process p changes in this step without the file
\* being looked at: the flag is set, or one entry is added at the end.
OwnMutation(p) ==
  LET before == peers.procs[p].data
      after == peers'.procs[p].data
  IN \/ after = setReviewComplete(before)
     \/ /\ after.reviewComplete = before.reviewComplete
        /\ Len(after.processedPosts) = Len(before.processedPosts) + 1
        /\ SubSeq(after.processedPosts, 1, Len(before.processedPosts))
             = before.processedPosts

\* C36: with two processes on one output directory, a process reads the
\* file only in load(): afterwards its ledger in memory changes only by its
\* own mutations; and every change of the file is a save that writes the
\* whole ledger in memory of one process, whatever the file held.
C36_ReadOnceRewrittenWhole ==
  [][/\ \A p \in Procs :
          (peers.procs[p].pc # "load"
           /\ peers'.procs[p].data # peers.procs[p].data) => OwnMutation(p)
     /\ peers'.file # peers.file =>
          \E p \in Procs :
            /\ peers'.procs[p] # peers.procs[p]
            /\ peers'.file = ValidFile(peers'.procs[p].data)]_allVars

\* The link of a post whose markPostProcessed has returned in one process is
\* not in the file any more, and not in the ledger in memory of the other
\* process, which has saved since.
C36_Witness ==
  \E l \in peers.persisted :
    /\ ~isPostProcessed(Loaded(peers.file), Probe(l))
    /\ \E p, q \in Procs :
         /\ isPostProcessed(peers.procs[p].data, Probe(l))
         /\ ~isPostProcessed(peers.procs[q].data, Probe(l))
         /\ peers.file = ValidFile(peers.procs[q].data)


============================================================================
